---- MODULE Spec2Model ----
(***************************************************************************)
(* Model of the voxel acceleration structure builder of wender.            *)
(*                                                                         *)
(* Voxels::build_svo (src/src/voxels.rs) is modelled as a state machine    *)
(* that walks through the function's phases: the layer loop, the pointer   *)
(* pass over the reversed levels, and the node emission pass.              *)
(* Voxels::new with compute_dotvox_model (the loader of the volume) and    *)
(* the compute passes of WgpuState (src/src/wgpu_util.rs) are state        *)
(* machines of their own, each with its own variables; so are the workers  *)
(* of one par_map_collect call, WgpuState::reload_shaders, and the two     *)
(* preprocessors build_shader and preprocess_shader (src/src/preproc.rs).  *)
(* A specification runs some of them and leaves the variables of the       *)
(* others as they are.                                                     *)
(*                                                                         *)
(* An Array3<u32> of side d is a record [dim, data] whose data is the      *)
(* sequence of its d^3 cells in ndarray's logical (row-major) order, the   *)
(* third axis varying fastest.  TLA+ sequences start at 1, so the Rust     *)
(* element levels[n] is levels[n + 1] here and the Rust element vec[p] is  *)
(* vec[p + 1].                                                             *)
(***************************************************************************)
EXTENDS Integers, Sequences, FiniteSets, TLC

\* ------------------------------------------------------------------ bounds

\* Largest exponent k of an input side d = 2^k.
MaxK == 3

\* Largest number of voxels of an input that differ from the background.
MaxOcc == 2

\* ------------------------------------------------------- program constants

\* let mut ptr = 13u32
InitialPtr == 13

\* ----------------------------------------------------------------- arrays

Min(a, b) == IF a < b THEN a ELSE b

\* u32::ilog2 / usize::ilog2 for x > 0 (it panics for x = 0).
Ilog2(x) == CHOOSE k \in 0..x : 2^k <= x /\ x < 2^(k + 1)

\* Number of cells of an array of side d.
Cells(d) == d * d * d

\* Position in the data sequence of the cell (x, y, z) of an array of side d.
Pos(d, x, y, z) == (x * d + y) * d + z + 1

\* The cell (x, y, z) of the array a.
At(a, x, y, z) == a.data[Pos(a.dim, x, y, z)]

\* Coordinates of the cell at position p (1-based) of an array of side d.
Coord(d, p) == << (p - 1) \div (d * d), ((p - 1) \div d) % d, (p - 1) % d >>

\* Number of 2x2x2 chunks per axis that exact_chunks((2, 2, 2)) yields.
ChunkDim(a) == a.dim \div 2

\* Octants with the chunk's origin taken at b instead of 2 * b: the chunks
\* overlap instead of tiling the array.
OctantsUnstrided(a, b) ==
    << At(a, b[1],     b[2],     b[3]),
       At(a, b[1],     b[2],     b[3] + 1),
       At(a, b[1],     b[2] + 1, b[3]),
       At(a, b[1],     b[2] + 1, b[3] + 1),
       At(a, b[1] + 1, b[2],     b[3]),
       At(a, b[1] + 1, b[2],     b[3] + 1),
       At(a, b[1] + 1, b[2] + 1, b[3]),
       At(a, b[1] + 1, b[2] + 1, b[3] + 1) >>

\* Octants with x varying first and z last.
OctantsXFirst(a, b) ==
    << At(a, 2 * b[1],     2 * b[2],     2 * b[3]),
       At(a, 2 * b[1] + 1, 2 * b[2],     2 * b[3]),
       At(a, 2 * b[1],     2 * b[2] + 1, 2 * b[3]),
       At(a, 2 * b[1] + 1, 2 * b[2] + 1, 2 * b[3]),
       At(a, 2 * b[1],     2 * b[2],     2 * b[3] + 1),
       At(a, 2 * b[1] + 1, 2 * b[2],     2 * b[3] + 1),
       At(a, 2 * b[1],     2 * b[2] + 1, 2 * b[3] + 1),
       At(a, 2 * b[1] + 1, 2 * b[2] + 1, 2 * b[3] + 1) >>

\* The 8 cells of the chunk b = <<cx, cy, cz>> of the array a, in the order
\* in which build_svo copies them into a node.
Octants(a, b) ==
    << At(a, 2 * b[1],     2 * b[2],     2 * b[3]),
       At(a, 2 * b[1],     2 * b[2],     2 * b[3] + 1),
       At(a, 2 * b[1],     2 * b[2] + 1, 2 * b[3]),
       At(a, 2 * b[1],     2 * b[2] + 1, 2 * b[3] + 1),
       At(a, 2 * b[1] + 1, 2 * b[2],     2 * b[3]),
       At(a, 2 * b[1] + 1, 2 * b[2],     2 * b[3] + 1),
       At(a, 2 * b[1] + 1, 2 * b[2] + 1, 2 * b[3]),
       At(a, 2 * b[1] + 1, 2 * b[2] + 1, 2 * b[3] + 1) >>

\* o.iter().any(|v| *v != 0) for a chunk (or node) o.
AnyNonZero(o) == \E s \in 1..8 : o[s] # 0

\* The q-th chunk (1-based) of the array a in iteration order.
ChunkAt(a, q) == Octants(a, Coord(ChunkDim(a), q))

\* ReduceLevel with all() in place of any().
ReduceLevelAll(a) ==
    [dim  |-> ChunkDim(a),
     data |-> [q \in 1..Cells(ChunkDim(a)) |->
                  IF \A s \in 1..8 : ChunkAt(a, q)[s] # 0 THEN 1 ELSE 0]]

\* Zip::from(prev_level.exact_chunks((2, 2, 2)))
\*     .par_map_collect(|o| o.iter().any(|v| *v != 0) as u32)
ReduceLevel(a) ==
    [dim  |-> ChunkDim(a),
     data |-> [q \in 1..Cells(ChunkDim(a)) |->
                  IF AnyNonZero(ChunkAt(a, q)) THEN 1 ELSE 0]]

\* The counter after k executions of ptr += 1.
NextPtr(p, k) == p + k

\* Number of cells among the first i of data that pass .filter(|o| **o != 0).
Visited(data, i) == Cardinality({j \in 1..i : data[j] # 0})

\* AssignData without the filter: every cell is overwritten.
AssignDataNoFilter(data, p) == [i \in 1..Len(data) |-> NextPtr(p, i)]

\* l.iter_mut().filter(|o| **o != 0).for_each(|o| { ptr += 1; *o = ptr; })
\* started with the counter p: the k-th cell that passes the filter, in
\* iteration order, is overwritten with the counter after k increments.
AssignData(data, p) ==
    [i \in 1..Len(data) |->
        IF data[i] # 0 THEN NextPtr(p, Visited(data, i)) ELSE data[i]]

\* The counter when that loop is over.
AssignPtr(data, p) == NextPtr(p, Visited(data, Len(data)))

\* KeptChunks with a filter that keeps only the chunks without an empty cell.
KeptChunksFull(a) ==
    SelectSeq([q \in 1..Cells(ChunkDim(a)) |-> q],
              LAMBDA q : \A s \in 1..8 : ChunkAt(a, q)[s] # 0)

\* KeptChunks without the filter.
KeptChunksEvery(a) == [q \in 1..Cells(ChunkDim(a)) |-> q]

\* The positions, in iteration order, of the chunks of a that pass
\* .filter(|o| o.iter().any(|o| *o != 0)).
KeptChunks(a) ==
    SelectSeq([q \in 1..Cells(ChunkDim(a)) |-> q],
              LAMBDA q : AnyNonZero(ChunkAt(a, q)))

\* The nodes pushed for one level, given the positions kept of the chunks
\* that pass the filter: one SvoNode per kept chunk.
LevelNodes(a, kept) == [i \in 1..Len(kept) |-> ChunkAt(a, kept[i])]

\* FixedNodes with one leading node less, and with one more, than the
\* counter's initial value.
FixedNodesShort == [i \in 1..(InitialPtr - 1) |-> [s \in 1..8 |-> i]]

FixedNodesLong == [i \in 1..(InitialPtr + 1) |-> [s \in 1..8 |-> i]]

\* The 13 leading nodes of the returned vec: node i (0-based) has all of its
\* octants equal to i + 1.
FixedNodes == [i \in 1..InitialPtr |-> [s \in 1..8 |-> i]]

\* ----------------------------------------------------------------- inputs

\* Positions at which the generated inputs place their distinguished voxels:
\* the 8 corners of the volume and the neighbours of the origin along the
\* first and the third axis, so that voxels share a chunk, share only a
\* coarser chunk, or share none.
Cand(d) ==
    LET far == {0, d - 1}
        near == {0, 1} \cap (0..(d - 1))
    IN  {Pos(d, x, y, z) : x \in far, y \in far, z \in far}
        \cup {Pos(d, x, 0, 0) : x \in near}
        \cup {Pos(d, 0, 0, z) : z \in near}

RECURSIVE SubsetsUpTo(_, _)
SubsetsUpTo(S, n) ==
    IF n = 0 THEN {{}}
    ELSE LET P == SubsetsUpTo(S, n - 1)
         IN  P \cup {T \cup {x} : T \in P, x \in S}

\* Material of an occupied voxel: v.i as u32 + 1 is at least 1; the second
\* material has the value of the first pointer build_svo hands out.
Material(p) == IF p % 2 = 1 THEN 1 ELSE NextPtr(InitialPtr, 1)

\* The volume of side d whose voxels at the positions S are occupied and all
\* others empty (inv = FALSE), or the other way round (inv = TRUE).
Volume(d, S, inv) ==
    [dim  |-> d,
     data |-> [p \in 1..Cells(d) |-> IF (p \in S) # inv THEN Material(p) ELSE 0]]

\* ------------------------------------------------------------------ state

VARIABLES
    voxels,     \* the argument of build_svo
    pc,         \* position in build_svo
    svo_depth,  \* let svo_depth
    levels,     \* let mut levels
    n,          \* the layer loop's variable
    taken,      \* the argument of take() in the pointer pass
    li,         \* number of levels the current reversed pass has consumed
    ptr,        \* let mut ptr
    vec,        \* let mut vec
    origin      \* history: for each pushed node, <<level, chunk position>>

\* Voxels::new and compute_dotvox_model.
VARIABLES
    file,       \* what dot_vox::load finds at the asset path
    lpc,        \* position in Voxels::new
    models,     \* let models: the resolved (model, tr) parts
    max_dim,    \* let max_dim
    wi,         \* number of voxel entries the fill loops have written
    volume,     \* let mut voxels of compute_dotvox_model, then Voxels.voxels
    palette,    \* Voxels.palette
    svo         \* Voxels.svo

\* WgpuState: its textures and the compute passes recorded on the encoder.
VARIABLES
    octree_depth,    \* constants.octree_depth
    rounding,        \* how the device rounds a store to an 8-bit unorm texel
    gpc,             \* position in the WgpuState operations
    dim,             \* mut dim of compute_octree / compute_mipmap
    depth,           \* let mut depth
    called,          \* the compute functions that have returned
    octree_texture,  \* [size, mips, written]
    colors_texture,  \* [size, mips, written, levels]
    passes           \* history: the compute passes in the order of issue

\* One level of the layer loop: the workers of par_map_collect.
VARIABLES
    par_in,     \* prev_level, borrowed immutably by every worker
    par_out,    \* the array being collected: cell -> value, for the cells stored
    running,    \* the closure results not yet stored: cell -> value
    reads,      \* history: for each cell mapped, the positions of par_in read
    ppc         \* position in the par_map_collect call

\* WgpuState::reload_shaders and the three pipelines.
VARIABLES
    rpc,        \* position in reload_shaders
    reloads,    \* number of calls of reload_shaders so far
    pipelines,  \* the fields render_pipeline, octree_pipeline, mipmap_pipeline
    before,     \* history: the three fields when the current call was entered
    failed      \* history: the shaders whose compilation failed in this call

\* preproc::build_shader and preproc::preprocess_shader.
VARIABLES
    files,           \* the shader directory: path -> the paths it refers to
    bpc,             \* position in build_shader
    included_files,  \* let mut included_files
    bstack,          \* the active calls of rec_preprocess, innermost last
    bresult,         \* what build_shader returns
    skips,           \* history: the inclusions answered with a skipped comment
    ipc,             \* position in preprocess_shader
    composer,        \* the composable modules in the order they were added
    istack,          \* the active calls of rec_preproc, innermost last
    iresult          \* what preprocess_shader returns

svoVars == <<voxels, pc, svo_depth, levels, n, taken, li, ptr, vec, origin>>

loaderVars == <<file, lpc, models, max_dim, wi, volume, palette, svo>>

gpuVars == <<octree_depth, rounding, gpc, dim, depth, called,
             octree_texture, colors_texture, passes>>

parVars == <<par_in, par_out, running, reads, ppc>>

reloadVars == <<rpc, reloads, pipelines, before, failed>>

preVars == <<files, bpc, included_files, bstack, bresult, skips,
             ipc, composer, istack, iresult>>

restVars == <<parVars, reloadVars, preVars>>

vars == <<svoVars, loaderVars, gpuVars, restVars>>

\* No par_map_collect call is followed.
ParOff ==
    /\ par_in = << >>
    /\ par_out = << >>
    /\ running = << >>
    /\ reads = << >>
    /\ ppc = "off"

\* reload_shaders is not followed.
ReloadOff ==
    /\ rpc = "off"
    /\ reloads = 0
    /\ pipelines = << >>
    /\ before = << >>
    /\ failed = {}

\* The preprocessor is not followed.
PreOff ==
    /\ files = << >>
    /\ bpc = "off"
    /\ included_files = << >>
    /\ bstack = << >>
    /\ bresult = << >>
    /\ skips = << >>
    /\ ipc = "off"
    /\ composer = << >>
    /\ istack = << >>
    /\ iresult = << >>

RestOff == ParOff /\ ReloadOff /\ PreOff

\* Voxels::new has not been called.
LoaderOff ==
    /\ file = << >>
    /\ lpc = "off"
    /\ models = << >>
    /\ max_dim = 0
    /\ wi = 0
    /\ volume = << >>
    /\ palette = << >>
    /\ svo = << >>

\* No WgpuState has been created.
GpuOff ==
    /\ octree_depth = 0
    /\ rounding = "nearest"
    /\ gpc = "off"
    /\ dim = 0
    /\ depth = 0
    /\ called = {}
    /\ octree_texture = << >>
    /\ colors_texture = << >>
    /\ passes = << >>

\* build_svo has not been called.
SvoOff ==
    /\ voxels = << >>
    /\ pc = "off"
    /\ svo_depth = 0
    /\ levels = << >>
    /\ n = 0
    /\ taken = 0
    /\ li = 0
    /\ ptr = 0
    /\ vec = << >>
    /\ origin = << >>

Init ==
    /\ \E k \in 0..MaxK :
         \E S \in SubsetsUpTo(Cand(2^k), MaxOcc) :
           \E inv \in BOOLEAN :
             voxels = Volume(2^k, S, inv)
    /\ pc = "start"
    /\ svo_depth = 0
    /\ levels = << >>
    /\ n = 0
    /\ taken = 0
    /\ li = 0
    /\ ptr = 0
    /\ vec = << >>
    /\ origin = << >>
    /\ LoaderOff
    /\ GpuOff
    /\ RestOff

\* let svo_depth = voxels.dim().0.ilog2() as usize;
\* let mut levels = vec![voxels.clone()];
Start ==
    /\ pc = "start"
    /\ IF voxels.dim = 0
       THEN /\ pc' = "panic"
            /\ UNCHANGED <<svo_depth, levels, n>>
       ELSE /\ svo_depth' = Ilog2(voxels.dim)
            /\ levels' = <<voxels>>
            /\ n' = 1
            /\ pc' = "layers"
    /\ UNCHANGED <<voxels, taken, li, ptr, vec, origin>>
    /\ UNCHANGED <<loaderVars, gpuVars, restVars>>

\* BuildLayer for the inclusive range 1..=svo_depth.
BuildLayerInclusive ==
    /\ pc = "layers"
    /\ n <= svo_depth
    /\ levels' = Append(levels, ReduceLevel(levels[n]))
    /\ n' = n + 1
    /\ UNCHANGED <<voxels, pc, svo_depth, taken, li, ptr, vec, origin>>
    /\ UNCHANGED <<loaderVars, gpuVars, restVars>>

\* One iteration of for n in 1..svo_depth.
BuildLayer ==
    /\ pc = "layers"
    /\ n < svo_depth
    /\ levels' = Append(levels, ReduceLevel(levels[n]))
    /\ n' = n + 1
    /\ UNCHANGED <<voxels, pc, svo_depth, taken, li, ptr, vec, origin>>
    /\ UNCHANGED <<loaderVars, gpuVars, restVars>>

\* The layer loop is over: let mut ptr = 13u32, and svo_depth - 1 is
\* evaluated for take().  With svo_depth = 0 the subtraction overflows: it
\* panics where overflow checks are on and wraps to usize::MAX where they
\* are off.  take(usize::MAX) yields every level, as usize::MAX exceeds the
\* length of any Vec, so taken records levels.len() in that case.
LayersDone ==
    /\ pc = "layers"
    /\ n >= svo_depth
    /\ ptr' = InitialPtr
    /\ li' = 0
    /\ \/ /\ svo_depth >= 1
          /\ taken' = svo_depth - 1
          /\ pc' = "pointers"
       \/ /\ svo_depth = 0
          /\ taken' = Len(levels)
          /\ pc' = "pointers"
       \/ /\ svo_depth = 0
          /\ taken' = taken
          /\ pc' = "panic"
    /\ UNCHANGED <<voxels, svo_depth, levels, n, vec, origin>>
    /\ UNCHANGED <<loaderVars, gpuVars, restVars>>

\* AssignLevel without rev(): the taken levels are walked finest first.
AssignLevelForward ==
    /\ pc = "pointers"
    /\ li < Min(taken, Len(levels))
    /\ LET l == Len(levels) - Min(taken, Len(levels)) + 1 + li
       IN  /\ levels' = [levels EXCEPT ![l].data = AssignData(@, ptr)]
           /\ ptr' = AssignPtr(levels[l].data, ptr)
    /\ li' = li + 1
    /\ UNCHANGED <<voxels, pc, svo_depth, n, taken, vec, origin>>
    /\ UNCHANGED <<loaderVars, gpuVars, restVars>>

\* One level of levels.iter_mut().rev().take(svo_depth - 1).
AssignLevel ==
    /\ pc = "pointers"
    /\ li < Min(taken, Len(levels))
    /\ LET l == Len(levels) - li
       IN  /\ levels' = [levels EXCEPT ![l].data = AssignData(@, ptr)]
           /\ ptr' = AssignPtr(levels[l].data, ptr)
    /\ li' = li + 1
    /\ UNCHANGED <<voxels, pc, svo_depth, n, taken, vec, origin>>
    /\ UNCHANGED <<loaderVars, gpuVars, restVars>>

\* The pointer pass is over: let mut vec = vec![...13 nodes...].
PointersDone ==
    /\ pc = "pointers"
    /\ li >= Min(taken, Len(levels))
    /\ vec' = FixedNodes
    /\ li' = 0
    /\ pc' = "nodes"
    /\ UNCHANGED <<voxels, svo_depth, levels, n, taken, ptr, origin>>
    /\ UNCHANGED <<loaderVars, gpuVars, restVars>>

\* One level of levels.iter().rev() in the node emission pass.
EmitLevel ==
    /\ pc = "nodes"
    /\ li < Len(levels)
    /\ \E l \in {Len(levels) - li} :
         \E kept \in {KeptChunks(levels[l])} :
           /\ vec' = vec \o LevelNodes(levels[l], kept)
           /\ origin' = origin \o [i \in 1..Len(kept) |-> <<l - 1, kept[i]>>]
    /\ li' = li + 1
    /\ UNCHANGED <<voxels, pc, svo_depth, levels, n, taken, ptr>>
    /\ UNCHANGED <<loaderVars, gpuVars, restVars>>

\* vec is returned.
Return ==
    /\ pc = "nodes"
    /\ li >= Len(levels)
    /\ pc' = "done"
    /\ UNCHANGED <<voxels, svo_depth, levels, n, taken, li, ptr, vec, origin>>
    /\ UNCHANGED <<loaderVars, gpuVars, restVars>>

Next ==
    \/ Start
    \/ BuildLayer
    \/ LayersDone
    \/ AssignLevel
    \/ PointersDone
    \/ EmitLevel
    \/ Return

Spec == Init /\ [][Next]_vars

\* ------------------------------------------------- vocabulary of the claims

\* The input's side d and the exponent k with d = 2^k.
Side == voxels.dim

K == CHOOSE k \in 0..(MaxK + 1) : 2^k = Side

\* The layer loop is over.
Built == pc \in {"pointers", "nodes", "done"}

\* The two states in which the pyramid is looked at: right after the layer
\* loop, before the pointer pass rewrites any level, and at the return.
LayersBuilt == pc = "pointers" /\ li = 0

Returned == pc = "done"

\* Some level-0 voxel inside the cube of side 2^lv at the coordinates c of
\* level lv (0-based) is occupied.
CubeOccupied(lv, c) ==
    \E w \in {2^lv} :
      \E x \in (c[1] * w)..(c[1] * w + w - 1) :
        \E y \in (c[2] * w)..(c[2] * w + w - 1) :
          \E z \in (c[3] * w)..(c[3] * w + w - 1) :
            At(voxels, x, y, z) # 0

\* Number of occupied voxels of the input.
OccupiedVoxels == Cardinality({p \in 1..Cells(Side) : voxels.data[p] # 0})

\* The i-th node pushed after the leading nodes, and its 0-based index in vec.
Emitted(i) == vec[Len(vec) - Len(origin) + i]

EmittedIndex(i) == Len(vec) - Len(origin) + i - 1

\* Coordinates, one level finer, of the cell that slot s of the node of the
\* chunk at coordinates c stands for.
SlotCell(c, s) ==
    << 2 * c[1] + ((s - 1) \div 4),
       2 * c[2] + (((s - 1) \div 2) % 2),
       2 * c[3] + ((s - 1) % 2) >>

\* ---------------------------------------------------------------------- C1

\* C1: after the layer loop and at the return, every level n >= 1 has half
\* the side of level n-1, and each of its cells is nonzero iff one of the 8
\* cells of its 2x2x2 block of level n-1 is nonzero; level 0 is occupied
\* where the input volume is nonzero.
C1_LevelIsOrOfChildren ==
    LayersBuilt \/ Returned =>
    /\ Len(levels) >= 1
    /\ levels[1].dim = Side
    /\ \/ levels[1] = voxels
       \/ \A p \in 1..Cells(Side) :
              (levels[1].data[p] # 0) <=> (voxels.data[p] # 0)
    /\ \A m \in 2..Len(levels) :
         /\ levels[m].dim = levels[m - 1].dim \div 2
         /\ \A q \in 1..Cells(levels[m].dim) :
              \A c \in {Coord(levels[m].dim, q)} :
                (levels[m].data[q] # 0) <=>
                   \E i \in {0, 1}, j \in {0, 1}, k \in {0, 1} :
                      At(levels[m - 1], 2 * c[1] + i, 2 * c[2] + j,
                         2 * c[3] + k) # 0

\* A finished build whose level 2 has an occupied and an empty cell.
C1_Witness ==
    /\ pc = "done"
    /\ Len(levels) >= 3
    /\ \E q \in 1..Cells(levels[3].dim) : levels[3].data[q] # 0
    /\ \E q \in 1..Cells(levels[3].dim) : levels[3].data[q] = 0

\* ---------------------------------------------------------------------- C2

\* C2: after the layer loop and at the return, a cell of any level is
\* nonzero iff some level-0 voxel of the input inside the cube it covers is
\* nonzero.
C2_OccupancyMatchesVolume ==
    LayersBuilt \/ Returned =>
    /\ \/ levels[1] = voxels
       \/ \A p \in 1..Cells(Side) :
              (levels[1].data[p] # 0) <=> (voxels.data[p] # 0)
    /\ \A m \in 2..Len(levels) :
         \A q \in 1..Cells(levels[m].dim) :
            \A c \in {Coord(levels[m].dim, q)} :
                (levels[m].data[q] # 0) <=> CubeOccupied(m - 1, c)

\* A finished build with an empty cell at the coarsest of three levels: a
\* 4x4x4 region of the input that a ray may skip.
C2_Witness ==
    /\ pc = "done"
    /\ Len(levels) = 3
    /\ OccupiedVoxels >= 1
    /\ \E q \in 1..Cells(levels[3].dim) : levels[3].data[q] = 0

\* ---------------------------------------------------------------------- C3

OccupiedChunks ==
    UNION {{<<m - 1, q>> : q \in {r \in 1..Cells(ChunkDim(levels[m])) :
                \E c \in {Coord(ChunkDim(levels[m]), r)} : CubeOccupied(m, c)}} :
           m \in 1..Len(levels)}

\* C4: in the returned array, every node after the leading ones has a
\* nonzero slot, is the copy of the chunk it was pushed for, and there is
\* exactly one such node for each chunk, of any level, that holds an
\* occupied voxel, and none for any other chunk.
C4_NoNodeForEmptyBlock ==
    pc = "done" =>
        /\ Len(vec) = Len(FixedNodes) + Len(origin)
        /\ \A i \in 1..Len(origin) :
             /\ AnyNonZero(Emitted(i))
             /\ Emitted(i) = ChunkAt(levels[origin[i][1] + 1], origin[i][2])
        /\ Cardinality({origin[i] : i \in 1..Len(origin)}) = Len(origin)
        /\ {origin[i] : i \in 1..Len(origin)} = OccupiedChunks

\* A finished build of two levels or more that pushed several nodes and
\* skipped at least one chunk of level 0.
C4_Witness ==
    /\ pc = "done"
    /\ K >= 2
    /\ Len(origin) >= 2
    /\ \E q \in 1..Cells(ChunkDim(voxels)) : ~AnyNonZero(ChunkAt(voxels, q))

\* ---------------------------------------------------------------------- C5

\* C5 as stated: for an all-empty volume the nodes pushed after the leading
\* ones are exactly one root node whose 8 slots are 0.
C5_EmptyVolumeHasRoot ==
    pc = "done" /\ OccupiedVoxels = 0 =>
        /\ Len(vec) = Len(FixedNodes) + 1
        /\ vec[Len(vec)] = [s \in 1..8 |-> 0]

\* ---------------------------------------------------------------------- C6

\* The nodes pushed for chunks of a level n >= 1: their slots are pointers.
PointerNodes == {i \in 1..Len(origin) : origin[i][1] >= 1}

\* C6: in the returned array, a slot of a node pushed for a chunk is 0 iff
\* no voxel inside the child cell it stands for is occupied, and the slots
\* of the nodes of levels n >= 1 that stand for occupied children hold
\* values handed out by the counter, none of which is 0.
C6_PointerZero ==
    pc = "done" =>
        /\ 0 \notin (InitialPtr + 1)..ptr
        /\ \A i \in 1..Len(origin) :
             \A c \in {Coord(ChunkDim(levels[origin[i][1] + 1]), origin[i][2])} :
               \A s \in 1..8 :
                 /\ \A cell \in {SlotCell(c, s)} :
                       (Emitted(i)[s] = 0) <=> ~CubeOccupied(origin[i][1], cell)
                 /\ origin[i][1] >= 1 /\ Emitted(i)[s] # 0 =>
                       Emitted(i)[s] \in (InitialPtr + 1)..ptr

\* A finished build with a node of a level n >= 1 that has both an empty and
\* an occupied child.
C6_Witness ==
    /\ pc = "done"
    /\ \E i \in PointerNodes :
         /\ \E s \in 1..8 : Emitted(i)[s] = 0
         /\ \E s \in 1..8 : Emitted(i)[s] # 0

\* ---------------------------------------------------------------------- C7

\* Position, among the chunks of the level below, of the chunk that slot s
\* of the i-th pushed node stands for.
ChildChunk(i, s) ==
    LET a == levels[origin[i][1] + 1]
        cell == SlotCell(Coord(ChunkDim(a), origin[i][2]), s)
    IN  Pos(a.dim, cell[1], cell[2], cell[3])

\* C7 as stated: a nonzero slot of a node of a level n >= 1 is a 1-based
\* index into the returned array: the record it counts to, the first record
\* being number 1, is the node pushed for the child's chunk of level n-1.
C7_OneBasedPointers ==
    pc = "done" =>
        \A i \in PointerNodes :
            \A s \in {t \in 1..8 : Emitted(i)[t] # 0} :
                \A j \in {Emitted(i)[s] - (Len(vec) - Len(origin))} :
                    /\ j \in 1..Len(origin)
                    /\ origin[j] = <<origin[i][1] - 1, ChildChunk(i, s)>>

\* C7 amended: a nonzero slot of a node of a level n >= 1 is a 0-based index
\* into the returned array (whose first 13 records are the leading nodes),
\* and the record at that index is the node pushed for the child's chunk of
\* level n-1, holding that chunk's 8 cells.
C7_ZeroBasedPointers ==
    pc = "done" =>
        \A i \in PointerNodes :
            \A s \in {t \in 1..8 : Emitted(i)[t] # 0} :
                \A j \in {Emitted(i)[s] + 1 - (Len(vec) - Len(origin))} :
                    /\ j \in 1..Len(origin)
                    /\ EmittedIndex(j) = Emitted(i)[s]
                    /\ origin[j] = <<origin[i][1] - 1, ChildChunk(i, s)>>
                    /\ Emitted(j) = ChunkAt(levels[origin[i][1]], ChildChunk(i, s))

\* A finished build in which a node of level 2 points to a node of level 1
\* that points to a node of level 0.
C7_Witness ==
    /\ pc = "done"
    /\ \E i \in PointerNodes : \E s \in 1..8 :
         /\ origin[i][1] = 2
         /\ Emitted(i)[s] # 0
         /\ \E t \in 1..8 : vec[Emitted(i)[s] + 1][t] # 0

\* ---------------------------------------------------------------------- C8

\* The levels (as positions in levels) that the pointer pass rewrites, the
\* coarsest first.
PointerLevels ==
    [x \in 1..Min(taken, Len(levels)) |-> Len(levels) + 1 - x]

\* The nonzero cells of the array a, in iteration order.
NonZeroCells(a) == SelectSeq(a.data, LAMBDA v : v # 0)

\* The values of the occupied cells of the levels the pointer pass rewrote,
\* walking the levels from the coarsest to the finest and the cells of a
\* level in row-major order.
RECURSIVE WalkFrom(_)
WalkFrom(x) ==
    IF x > Len(PointerLevels) THEN << >>
    ELSE NonZeroCells(levels[PointerLevels[x]]) \o WalkFrom(x + 1)

\* The slots of the nodes of levels n >= 1 that hold a pointer.
PointerSlots ==
    {<<i, s>> \in PointerNodes \X (1..8) : Emitted(i)[s] # 0}

\* C8: once the pointer pass is over, the occupied cells met on the walk
\* from the coarsest level to the finest, in row-major order, hold the
\* consecutive values 14, 15, ..., ptr; and in the returned array every
\* pushed node but the first is the target of exactly one pointer slot.
C8_PointersConsecutive ==
    /\ pc \in {"nodes", "done"} =>
         \A w \in {WalkFrom(1)} :
            /\ Len(w) = ptr - InitialPtr
            /\ \A x \in 1..Len(w) : w[x] = InitialPtr + x
    /\ pc = "done" =>
         /\ Cardinality({Emitted(e[1])[e[2]] : e \in PointerSlots}) =
               Cardinality(PointerSlots)
         /\ {Emitted(e[1])[e[2]] : e \in PointerSlots} =
               {EmittedIndex(j) : j \in 2..Len(origin)}

\* A finished build in which two levels received pointers, two of them on
\* the finer one.
C8_Witness ==
    /\ pc = "done"
    /\ Len(PointerLevels) = 2
    /\ Len(NonZeroCells(levels[2])) >= 2
    /\ ptr >= InitialPtr + 4

\* ---------------------------------------------------------------------- C9

\* C9 as stated: the number of nodes pushed is at most the number of
\* occupied voxels of the input.
C9_NodesBoundedByVoxels ==
    pc = "done" => Len(origin) <= OccupiedVoxels

\* C9 amended: the number of nodes pushed after the leading ones is at most
\* the number of occupied voxels times the number of levels.
C9_NodesBoundedByVoxelsPerLevel ==
    pc = "done" =>
        /\ Len(vec) - Len(FixedNodes) = Len(origin)
        /\ Len(origin) <= OccupiedVoxels * Len(levels)

\* A finished build that pushed more nodes than the input has occupied
\* voxels.
C9_Witness ==
    /\ pc = "done"
    /\ OccupiedVoxels >= 1
    /\ Len(origin) > OccupiedVoxels

\* --------------------------------------------------------------------- C10

\* C10 as stated: if some voxel of the input is empty, the returned array
\* has fewer than d^3 nodes.
C10_FewerNodesThanCells ==
    pc = "done" /\ OccupiedVoxels < Cells(Side) => Len(vec) < Cells(Side)

\* C10 amended: if some voxel of the input is empty, the returned array has
\* fewer than d^3 + 13 nodes: fewer than d^3 besides the 13 leading ones.
C10_FewerEmittedThanCells ==
    pc = "done" /\ OccupiedVoxels < Cells(Side) =>
        Len(vec) < Cells(Side) + InitialPtr

\* A finished build of a volume with occupied and empty voxels.
C10_Witness ==
    /\ pc = "done"
    /\ OccupiedVoxels >= 1
    /\ OccupiedVoxels < Cells(Side)
    /\ Len(vec) > Len(FixedNodes)


\* --------------------------------------------------------------------- C11

\* Number of nonzero slots of a node.
NonZeroSlots(o) == Cardinality({s \in 1..8 : o[s] # 0})

\* C11: when build_svo returns for a volume of side 2^k with exactly one
\* occupied voxel, every level it built has exactly one nonzero cell, the
\* one whose cube contains that voxel, and exactly k nodes were emitted,
\* each with exactly one nonzero slot.
C11_SingleVoxelChain ==
    (pc = "done" /\ OccupiedVoxels = 1) =>
        /\ Len(origin) = K
        /\ \A i \in 1..Len(origin) : NonZeroSlots(Emitted(i)) = 1
        /\ \A l \in 1..Len(levels) :
             \E p \in 1..Cells(levels[l].dim) :
               /\ CubeOccupied(l - 1, Coord(levels[l].dim, p))
               /\ \A q \in 1..Cells(levels[l].dim) :
                    (levels[l].data[q] # 0) <=> (q = p)

\* A 4x4x4 volume whose only occupied voxel is (0,0,0) has returned with
\* two emitted nodes.
C11_Witness ==
    /\ pc = "done"
    /\ Side = 4
    /\ OccupiedVoxels = 1
    /\ At(voxels, 0, 0, 0) # 0
    /\ Len(origin) = 2


\* --------------------------------------------------------------------- C12

\* Largest side of the volumes handed to build_svo without the loader's
\* rounding: sides 0..MaxSide, powers of two or not.
MaxSide == 6

\* build_svo called on a volume of any side.  A volume of side 0 has no
\* cell; the others are empty or full but for at most one distinguished
\* voxel.
InitAnySide ==
    /\ \E d \in 0..MaxSide :
         \E S \in SubsetsUpTo(IF d = 0 THEN {} ELSE Cand(d), 1) :
           \E inv \in BOOLEAN :
             voxels = Volume(d, S, inv)
    /\ pc = "start"
    /\ svo_depth = 0
    /\ levels = << >>
    /\ n = 0
    /\ taken = 0
    /\ li = 0
    /\ ptr = 0
    /\ vec = << >>
    /\ origin = << >>
    /\ LoaderOff
    /\ GpuOff
    /\ RestOff

SpecAnySide == InitAnySide /\ [][Next]_vars

IsPowerOfTwo(d) == \E k \in 0..d : 2^k = d

\* C12: build_svo returns a node array only for a volume whose side is a
\* power of two; for any other side, and for side 0, it panics.
C12_ReturnsOnlyForPowerOfTwo ==
    pc = "done" => IsPowerOfTwo(Side)


\* --------------------------------------- Voxels::new, compute_dotvox_model

\* Largest extent of a generated model along one axis.
MaxSize == 2

\* Largest component of a generated transform's translation.
MaxTr == 2

\* Largest palette index of a generated voxel entry.
MaxIndex == 1

\* tr += glm::vec3(..), size + tr
Add3(a, b) == << a[1] + b[1], a[2] + b[2], a[3] + b[3] >>

MaxOf(S) == CHOOSE m \in S : \A x \in S : x <= m

\* glm::max2(&v1, &v2)
Max2(v1, v2) == [a \in 1..3 |-> MaxOf({v1[a], v2[a]})]

\* frame.position() of a Transform node without a translation.
NoPos == << >>

TransformNode(pos, child) ==
    [kind |-> "Transform", pos |-> pos, child |-> child,
     children |-> << >>, models |-> << >>]

GroupNode(children) ==
    [kind |-> "Group", pos |-> NoPos, child |-> 0,
     children |-> children, models |-> << >>]

ShapeNode(ids) ==
    [kind |-> "Shape", pos |-> NoPos, child |-> 0,
     children |-> << >>, models |-> ids]

\* What process_node pushes to res for the node and the translation tr, in
\* the order of the pushes; ProcessChildren is the loop of the Group arm.
\* Indices into asset.scenes and asset.models are 0-based in the asset.
RECURSIVE ProcessNode(_, _, _)
RECURSIVE ProcessChildren(_, _, _)
ProcessNode(asset, node, tr) ==
    CASE node.kind = "Transform" ->
           ProcessNode(asset, asset.scenes[node.child + 1],
                       IF node.pos # NoPos THEN Add3(tr, node.pos) ELSE tr)
      [] node.kind = "Group" ->
           ProcessChildren(asset, node.children, tr)
      [] node.kind = "Shape" ->
           [j \in 1..Len(node.models) |->
               [model |-> asset.models[node.models[j] + 1], tr |-> tr]]

ProcessChildren(asset, children, tr) ==
    IF children = << >> THEN << >>
    ELSE ProcessNode(asset, asset.scenes[Head(children) + 1], tr)
            \o ProcessChildren(asset, Tail(children), tr)

\* let models = if let Some(root) = asset.scenes.get(0) {..} else {..};
ResolveModels(asset) ==
    IF Len(asset.scenes) > 0
    THEN ProcessNode(asset, asset.scenes[1], <<0, 0, 0>>)
    ELSE [j \in 1..Len(asset.models) |->
             [model |-> asset.models[j], tr |-> <<0, 0, 0>>]]

\* models.iter().map(|(m, tr)| size + tr)
Extents(ms) == [j \in 1..Len(ms) |-> Add3(ms[j].model.size, ms[j].tr)]

\* .reduce(|v1, v2| glm::max2(&v1, &v2)) of a non-empty sequence.
RECURSIVE ReduceMax2(_)
ReduceMax2(e) ==
    IF Len(e) = 1 THEN e[1]
    ELSE Max2(ReduceMax2(SubSeq(e, 1, Len(e) - 1)), e[Len(e)])

\* dim.max()
MaxComp(v) == MaxOf({v[1], v[2], v[3]})

\* MaxDim without the rounding: the largest axis itself.
MaxDimExact(m) == m

\* 2 << m.ilog2(), for m >= 1.
MaxDim(m) == 2 * 2^Ilog2(m)

\* Array3::zeros((d, d, d))
Zeros(d) == [dim |-> d, data |-> [p \in 1..Cells(d) |-> 0]]

\* The voxel entries in the order in which the two nested for_each visit
\* them, each with the translation of its part.
RECURSIVE Entries(_)
Entries(ms) ==
    IF ms = << >> THEN << >>
    ELSE [k \in 1..Len(Head(ms).model.voxels) |->
             [v |-> Head(ms).model.voxels[k], tr |-> Head(ms).tr]]
            \o Entries(Tail(ms))

\* TargetIndex without the exchange of the second and third axis.
TargetIndexUnswapped(v, tr) == << v.x + tr[1], v.y + tr[2], v.z + tr[3] >>

\* The index (v.x + tr.x, v.z + tr.z, v.y + tr.y) before the casts to usize.
TargetIndex(v, tr) == << v.x + tr[1], v.z + tr[3], v.y + tr[2] >>

\* The index is accepted by the array of side d.  A negative component
\* becomes a value above 2^63 when cast to usize and is out of bounds.
InBounds(ix, d) == \A a \in 1..3 : 0 <= ix[a] /\ ix[a] < d

\* The palette of Voxels: each channel c as f32 / 255.0, kept as the
\* fraction <<c, 255>>.
ConvertPalette(p) ==
    [j \in 1..Len(p) |->
        << <<p[j].r, 255>>, <<p[j].g, 255>>, <<p[j].b, 255>>, <<p[j].a, 255>> >>]

\* fractal_svo()
FractalSvo == << <<1, 0, 0, 1, 0, 1, 1, 0>>, <<1, 0, 0, 1, 0, 1, 1, 0>> >>


\* Generated assets.  A model of a given size has two voxel entries, at its
\* two opposite corners, with the palette indices 0 and MaxIndex; in a
\* model of size 1x1x1 both entries name the same voxel.
ModelOf(size) ==
    [size   |-> size,
     voxels |-> << [x |-> 0, y |-> 0, z |-> 0, i |-> 0],
                   [x |-> size[1] - 1, y |-> size[2] - 1, z |-> size[3] - 1,
                    i |-> MaxIndex] >>]

Sizes ==
    { <<1, 1, 1>>, <<MaxSize, 1, 1>>, <<1, MaxSize, 1>>, <<1, 1, MaxSize>>,
      <<MaxSize, MaxSize, MaxSize>> }

Offsets ==
    { <<0, 0, 0>>, <<-1, -1, -1>> }
        \cup {<<t, 0, 0>> : t \in {-1, MaxTr}}
        \cup {<<0, t, 0>> : t \in {-1, MaxTr}}
        \cup {<<0, 0, t>> : t \in {-1, MaxTr}}

\* Lists of at most two parts, a part being a model size and a translation.
PartLists ==
    LET P == {<<sz, t>> : sz \in Sizes, t \in Offsets}
    IN  {<< >>} \cup {<<a>> : a \in P} \cup {<<a, b>> : a \in P, b \in P}

PaletteOf(len) ==
    [j \in 1..len |-> [r |-> 255, g |-> j - 1, b |-> 0, a |-> 255]]

\* The asset whose scene graph is a root transform without translation over
\* a group with, for each part, a transform over a shape of one model.
SceneAsset(parts, len) ==
    [models  |-> [j \in 1..Len(parts) |-> ModelOf(parts[j][1])],
     scenes  |-> << TransformNode(NoPos, 1),
                    GroupNode([j \in 1..Len(parts) |-> 2 * j]) >>
                 \o [q \in 1..(2 * Len(parts)) |->
                        IF q % 2 = 1
                        THEN TransformNode(parts[(q + 1) \div 2][2], q + 2)
                        ELSE ShapeNode(<<(q \div 2) - 1>>)],
     palette |-> PaletteOf(len)]

\* The asset without scene graph that holds the models of the parts.
PlainAsset(parts, len) ==
    [models  |-> [j \in 1..Len(parts) |-> ModelOf(parts[j][1])],
     scenes  |-> << >>,
     palette |-> PaletteOf(len)]

Assets ==
    {SceneAsset(ps, len) : ps \in PartLists, len \in {MaxIndex, MaxIndex + 1}}
        \cup {PlainAsset(ps, len) :
                 ps \in {qs \in PartLists :
                           \A j \in 1..Len(qs) : qs[j][2] = <<0, 0, 0>>},
                 len \in {MaxIndex, MaxIndex + 1}}

\* What dot_vox::load returns: Ok(asset), or Err for a missing or corrupt
\* file.
Files ==
    {[ok |-> TRUE, asset |-> a] : a \in Assets}
        \cup {[ok |-> FALSE, asset |-> << >>]}

InitLoader ==
    /\ file \in Files
    /\ lpc = "load"
    /\ models = << >>
    /\ max_dim = 0
    /\ wi = 0
    /\ volume = << >>
    /\ palette = << >>
    /\ svo = << >>
    /\ SvoOff
    /\ GpuOff
    /\ RestOff

\* dot_vox::load(..).expect("failed to load magicvoxel asset")
LoadAsset ==
    /\ lpc = "load"
    /\ lpc' = IF file.ok THEN "models" ELSE "panic"
    /\ UNCHANGED <<file, models, max_dim, wi, volume, palette, svo>>
    /\ UNCHANGED <<svoVars, gpuVars, restVars>>

\* let models = ..
ComputeModels ==
    /\ lpc = "models"
    /\ models' = ResolveModels(file.asset)
    /\ lpc' = "dim"
    /\ UNCHANGED <<file, max_dim, wi, volume, palette, svo>>
    /\ UNCHANGED <<svoVars, gpuVars, restVars>>

\* let dim = ..reduce(..).unwrap(); let max_dim = 2 << dim.max().ilog2();
\* let mut voxels = Array3::zeros(..).  unwrap() panics for an empty list,
\* and ilog2 for a largest axis that is not positive.
ComputeDim ==
    /\ lpc = "dim"
    /\ IF Len(models) = 0
       THEN /\ lpc' = "panic"
            /\ UNCHANGED <<max_dim, volume>>
       ELSE \E m \in {MaxComp(ReduceMax2(Extents(models)))} :
              IF m <= 0
              THEN /\ lpc' = "panic"
                   /\ UNCHANGED <<max_dim, volume>>
              ELSE /\ max_dim' = MaxDim(m)
                   /\ volume' = Zeros(MaxDim(m))
                   /\ lpc' = "fill"
    /\ UNCHANGED <<file, models, wi, palette, svo>>
    /\ UNCHANGED <<svoVars, gpuVars, restVars>>

\* One execution of voxels[(..)] = v.i as u32 + 1; the indexing panics for
\* an index out of bounds.
WriteVoxel ==
    /\ lpc = "fill"
    /\ wi < Len(Entries(models))
    /\ \E e \in {Entries(models)[wi + 1]} :
         \E ix \in {TargetIndex(e.v, e.tr)} :
           IF InBounds(ix, max_dim)
           THEN /\ volume' = [volume EXCEPT
                      !.data[Pos(max_dim, ix[1], ix[2], ix[3])] = e.v.i + 1]
                /\ wi' = wi + 1
                /\ lpc' = lpc
           ELSE /\ lpc' = "panic"
                /\ UNCHANGED <<volume, wi>>
    /\ UNCHANGED <<file, models, max_dim, palette, svo>>
    /\ UNCHANGED <<svoVars, gpuVars, restVars>>

\* compute_dotvox_model returns voxels; Voxels::new converts the palette,
\* takes fractal_svo() as svo and returns Self.
FinishNew ==
    /\ lpc = "fill"
    /\ wi >= Len(Entries(models))
    /\ palette' = ConvertPalette(file.asset.palette)
    /\ svo' = FractalSvo
    /\ lpc' = "done"
    /\ UNCHANGED <<file, models, max_dim, wi, volume>>
    /\ UNCHANGED <<svoVars, gpuVars, restVars>>

NextLoader ==
    \/ LoadAsset
    \/ ComputeModels
    \/ ComputeDim
    \/ WriteVoxel
    \/ FinishNew

SpecLoader == InitLoader /\ [][NextLoader]_vars


\* ------------------------------------------------ vocabulary of C13..C17

\* compute_dotvox_model has allocated its array.
Allocated == lpc \in {"fill", "done"}

\* The pairs <<j, k>> naming voxel entry k of part j of the resolved list.
EntryIds ==
    UNION {{<<j, k>> : k \in 1..Len(models[j].model.voxels)} :
              j \in 1..Len(models)}

EntryOf(e) == models[e[1]].model.voxels[e[2]]

\* The cell the claims name for an entry: (t.x + x, t.z + z, t.y + y).
Target(e) ==
    << models[e[1]].tr[1] + EntryOf(e).x,
       models[e[1]].tr[3] + EntryOf(e).z,
       models[e[1]].tr[2] + EntryOf(e).y >>

\* Entry e is written after entry f.
Later(e, f) == e[1] > f[1] \/ (e[1] = f[1] /\ e[2] > f[2])

\* The largest axis of the bounding extent of the resolved parts.
LargestAxis ==
    MaxOf({models[j].tr[a] + models[j].model.size[a] :
              j \in 1..Len(models), a \in 1..3})

\* --------------------------------------------------------------------- C13

\* C13: once compute_dotvox_model has allocated its volume for a non-empty
\* list of parts, and when Voxels::new returns, the volume is cubic (side^3
\* cells for the side max_dim) and its side is a power of two.
C13_CubicPowerOfTwo ==
    Allocated =>
        /\ Len(models) > 0
        /\ volume.dim = max_dim
        /\ Len(volume.data) = max_dim * max_dim * max_dim
        /\ \E k \in 0..max_dim : 2^k = max_dim

\* Voxels::new has returned for two parts whose largest axis is 3; the side
\* is 4.
C13_Witness ==
    /\ lpc = "done"
    /\ Len(models) = 2
    /\ LargestAxis = 3
    /\ volume.dim = 4

\* --------------------------------------------------------------------- C14

\* C14: the side is the smallest power of two that is at least the largest
\* axis of the bounding extent; a largest axis that is a power of two is
\* the side.
C14_SmallestPowerOfTwo ==
    Allocated =>
        /\ \E k \in 0..max_dim : 2^k = max_dim
        /\ max_dim >= LargestAxis
        /\ max_dim < 2 * LargestAxis

\* --------------------------------------------------------------------- C15

\* C15: when the loader returns, the cell (t.x + x, t.z + z, t.y + y) of
\* every entry (x, y, z, i) of every part with offset t is inside the
\* volume; a cell holds i + 1 of the last entry written to it, and 0 when
\* no entry maps to it.
C15_CellsHoldLastEntry ==
    lpc = "done" =>
        /\ \A e \in EntryIds :
             \A a \in 1..3 : Target(e)[a] \in 0..(volume.dim - 1)
        /\ \A x \in 0..(volume.dim - 1), y \in 0..(volume.dim - 1),
              z \in 0..(volume.dim - 1) :
             \E hits \in {{e \in EntryIds : Target(e) = <<x, y, z>>}} :
               IF hits = {}
               THEN At(volume, x, y, z) = 0
               ELSE \E e \in hits :
                      /\ \A f \in hits : ~Later(f, e)
                      /\ At(volume, x, y, z) = EntryOf(e).i + 1

\* The loader has returned for an asset in which two entries with different
\* palette indices map to one cell, and some entry has y # z and a part has
\* a translation whose second and third component differ.
C15_Witness ==
    /\ lpc = "done"
    /\ \E e \in EntryIds, f \in EntryIds :
         /\ e # f
         /\ Target(e) = Target(f)
         /\ EntryOf(e).i # EntryOf(f).i
    /\ \E e \in EntryIds : EntryOf(e).y # EntryOf(e).z
    /\ \E j \in 1..Len(models) : models[j].tr[2] # models[j].tr[3]

\* --------------------------------------------------------------------- C16

\* C16: a missing or corrupt asset file, and an empty list of resolved
\* parts, make the load end with an error value: Voxels::new does not
\* panic.
C16_FailureIsAnErrorValue ==
    (\/ ~file.ok
     \/ (lpc \notin {"load", "models"} /\ Len(models) = 0))
        => lpc # "panic"

\* --------------------------------------------------------------------- C17

\* C17: when the loader returns, every material v > 0 stored in the volume
\* has its palette entry palette[v - 1].
C17_StoredMaterialHasPaletteEntry ==
    lpc = "done" =>
        \A p \in 1..Len(volume.data) :
            volume.data[p] > 0 => volume.data[p] <= Len(palette)


\* ------------------------------------------------ WgpuState compute passes

\* Largest constants.octree_depth of the generated runs.
MaxOctreeDepth == 2

\* Side of mip level i of a texture of side size.
MipSide(size, i) == size \div 2^i

\* CreateDvoTexture with the side of the volume in place of half of it.
CreateDvoTextureFullSide(d) ==
    [size |-> d, mips |-> Ilog2(d), written |-> {}]

\* create_dvo_texture(device, d)
CreateDvoTexture(d) ==
    [size |-> d \div 2, mips |-> Ilog2(d), written |-> {}]

\* The texel written for a voxel of material v: transparent black for an
\* empty voxel, else the colour of the material.
ColorOf(v) ==
    IF v = 0 THEN <<0, 0, 0, 0>>
    ELSE IF v = 1 THEN <<255, 128, 0, 255>> ELSE <<0, 100, 7, 255>>

\* buffers.colors for a volume: one RGBA texel per voxel.
ColorsData(vol) ==
    [dim |-> vol.dim, data |-> [p \in 1..Len(vol.data) |-> ColorOf(vol.data[p])]]

\* create_colors_texture(device, queue, d, colors_data): mip 0 is written by
\* queue.write_texture, the other mips hold nothing yet.
CreateColorsTexture(d, data) ==
    [size |-> d, mips |-> Ilog2(d), written |-> {0},
     levels |-> [i \in 0..(Ilog2(d) - 1) |-> IF i = 0 THEN data ELSE << >>]]

\* How a value num/den, in units of 1/255, is stored in a texel channel of
\* an Rgba8Unorm texture: as one of the two nearest integers, which one
\* depending on the device.
StoreUnorm8(num, den, rnd) ==
    CASE rnd = "down"    -> num \div den
      [] rnd = "up"      -> (num + den - 1) \div den
      [] rnd = "nearest" -> (2 * num + den) \div (2 * den)

Roundings == {"down", "nearest", "up"}

\* Sum of channel ch over the 8 texels of a block.
ChannelSum(o, ch) ==
    o[1][ch] + o[2][ch] + o[3][ch] + o[4][ch]
        + o[5][ch] + o[6][ch] + o[7][ch] + o[8][ch]

\* MeanDivisor counting only the texels that are not fully transparent.
MeanDivisorOpaque(o) ==
    MaxOf({1, Cardinality({s \in 1..8 : o[s] # <<0, 0, 0, 0>>})})

\* The divisor of the mean of a block: all 8 texels count.
MeanDivisor(o) == 8

\* What one mipmap pass stores in the next mip level for the level a: for
\* each 2x2x2 block the mean of its texels, channel by channel.
MipReduce(a, rnd) ==
    [dim  |-> ChunkDim(a),
     data |-> [q \in 1..Cells(ChunkDim(a)) |->
                  [ch \in 1..4 |->
                      StoreUnorm8(ChannelSum(ChunkAt(a, q), ch),
                                  MeanDivisor(ChunkAt(a, q)), rnd)]]]

\* base_mip_level of the input view of an octree pass after the first:
\* the level the pass writes, in place of the one before it.
OctreeInputMipSame(d) == d

\* base_mip_level: depth - 1
OctreeInputMip(d) == d - 1

\* MipmapContinues with the bound of compute_octree's loop.
MipmapContinuesToOne(d) == d > 1

\* while dim > 2
MipmapContinues(d) == d > 2

\* A compute pass as recorded on the encoder: its pipeline, the texture and
\* mip level of its input and output view, the workgroups per axis, and
\* whether the input level had been written when the pass was issued.
Pass(pipeline, input, output, groups, ready) ==
    [pipeline |-> pipeline, input |-> input, output |-> output,
     groups |-> groups, ready |-> ready]

\* The dim handed to create_*_texture and to the compute functions.
StateDim == 2^(octree_depth + 1)


\* A WgpuState is about to be created for a loaded volume of side
\* 2^(octree_depth + 1), on which build_svo is called as well.  The volume
\* is empty or full but for at most the voxel at the origin.
InitGpu ==
    /\ octree_depth \in 0..MaxOctreeDepth
    /\ rounding \in Roundings
    /\ gpc = "new"
    /\ dim = 0
    /\ depth = 0
    /\ called = {}
    /\ octree_texture = << >>
    /\ colors_texture = << >>
    /\ passes = << >>
    /\ \E S \in SubsetsUpTo({1}, 1) :
         \E inv \in BOOLEAN :
           voxels = Volume(StateDim, S, inv)
    /\ pc = "start"
    /\ svo_depth = 0
    /\ levels = << >>
    /\ n = 0
    /\ taken = 0
    /\ li = 0
    /\ ptr = 0
    /\ vec = << >>
    /\ origin = << >>
    /\ LoaderOff
    /\ RestOff

\* No call of build_svo is in progress: the functions run on one thread
\* and a call runs to its end before the next one starts.
SvoIdle == pc \in {"off", "start", "done", "panic"}

\* WgpuState::new: the textures are created.
NewState ==
    /\ gpc = "new"
    /\ SvoIdle
    /\ octree_texture' = CreateDvoTexture(StateDim)
    /\ colors_texture' = CreateColorsTexture(StateDim, ColorsData(voxels))
    /\ gpc' = "ready"
    /\ UNCHANGED <<octree_depth, rounding, dim, depth, called, passes>>
    /\ UNCHANGED <<svoVars, loaderVars, restVars>>

\* compute_octree(device, encoder, dim) is entered: let mut depth = 0.
CallComputeOctree ==
    /\ gpc = "ready"
    /\ SvoIdle
    /\ "octree" \notin called
    /\ dim' = StateDim
    /\ depth' = 0
    /\ gpc' = "first"
    /\ UNCHANGED <<octree_depth, rounding, called, octree_texture,
                   colors_texture, passes>>
    /\ UNCHANGED <<svoVars, loaderVars, restVars>>

\* The first pass: voxels_texture into mip 0 of octree_texture.  Creating a
\* view of a mip level the texture does not have is a validation error.
OctreeFirstPass ==
    /\ gpc = "first"
    /\ IF 0 < octree_texture.mips
       THEN /\ passes' = Append(passes,
                   Pass("octree", <<"voxels", 0>>, <<"octree", 0>>,
                        dim \div 2, TRUE))
            /\ octree_texture' =
                   [octree_texture EXCEPT !.written = @ \cup {0}]
            /\ dim' = dim \div 2
            /\ depth' = depth + 1
            /\ gpc' = "octree"
       ELSE /\ gpc' = "panic"
            /\ UNCHANGED <<passes, octree_texture, dim, depth>>
    /\ UNCHANGED <<octree_depth, rounding, called, colors_texture>>
    /\ UNCHANGED <<svoVars, loaderVars, restVars>>

\* One iteration of while dim > 1 in compute_octree.
OctreePass ==
    /\ gpc = "octree"
    /\ dim > 1
    /\ \E in \in {OctreeInputMip(depth)} :
         IF in < octree_texture.mips /\ depth < octree_texture.mips
         THEN /\ passes' = Append(passes,
                     Pass("octree", <<"octree", in>>, <<"octree", depth>>,
                          dim \div 2, in \in octree_texture.written))
              /\ octree_texture' =
                     [octree_texture EXCEPT !.written = @ \cup {depth}]
              /\ dim' = dim \div 2
              /\ depth' = depth + 1
              /\ gpc' = gpc
         ELSE /\ gpc' = "panic"
              /\ UNCHANGED <<passes, octree_texture, dim, depth>>
    /\ UNCHANGED <<octree_depth, rounding, called, colors_texture>>
    /\ UNCHANGED <<svoVars, loaderVars, restVars>>

\* compute_octree returns.
OctreeReturn ==
    /\ gpc = "octree"
    /\ ~(dim > 1)
    /\ called' = called \cup {"octree"}
    /\ gpc' = "ready"
    /\ UNCHANGED <<octree_depth, rounding, dim, depth, octree_texture,
                   colors_texture, passes>>
    /\ UNCHANGED <<svoVars, loaderVars, restVars>>

\* compute_mipmap(device, encoder, dim) is entered: let mut depth = 0.
CallComputeMipmap ==
    /\ gpc = "ready"
    /\ SvoIdle
    /\ "mipmap" \notin called
    /\ dim' = StateDim
    /\ depth' = 0
    /\ gpc' = "mipmap"
    /\ UNCHANGED <<octree_depth, rounding, called, octree_texture,
                   colors_texture, passes>>
    /\ UNCHANGED <<svoVars, loaderVars, restVars>>

\* One iteration of while dim > 2 in compute_mipmap: mip depth of
\* colors_texture into mip depth + 1.
MipmapPass ==
    /\ gpc = "mipmap"
    /\ MipmapContinues(dim)
    /\ IF depth + 1 < colors_texture.mips
       THEN /\ passes' = Append(passes,
                   Pass("mipmap", <<"colors", depth>>, <<"colors", depth + 1>>,
                        dim \div 2, depth \in colors_texture.written))
            /\ colors_texture' =
                   [colors_texture EXCEPT
                      !.written = @ \cup {depth + 1},
                      !.levels[depth + 1] =
                          IF depth \in colors_texture.written
                          THEN MipReduce(colors_texture.levels[depth], rounding)
                          ELSE << >>]
            /\ dim' = dim \div 2
            /\ depth' = depth + 1
            /\ gpc' = gpc
       ELSE /\ gpc' = "panic"
            /\ UNCHANGED <<passes, colors_texture, dim, depth>>
    /\ UNCHANGED <<octree_depth, rounding, called, octree_texture>>
    /\ UNCHANGED <<svoVars, loaderVars, restVars>>

\* compute_mipmap returns.
MipmapReturn ==
    /\ gpc = "mipmap"
    /\ ~MipmapContinues(dim)
    /\ called' = called \cup {"mipmap"}
    /\ gpc' = "ready"
    /\ UNCHANGED <<octree_depth, rounding, dim, depth, octree_texture,
                   colors_texture, passes>>
    /\ UNCHANGED <<svoVars, loaderVars, restVars>>

\* A step of build_svo, taken while no WgpuState function is running.
SvoCall ==
    /\ gpc \in {"new", "ready"}
    /\ Next

NextGpu ==
    \/ NewState
    \/ CallComputeOctree
    \/ OctreeFirstPass
    \/ OctreePass
    \/ OctreeReturn
    \/ CallComputeMipmap
    \/ MipmapPass
    \/ MipmapReturn
    \/ SvoCall

SpecGpu == InitGpu /\ [][NextGpu]_vars


\* ------------------------------------------------ vocabulary of C18..C20

\* WgpuState::new has created the textures.
TexturesCreated == gpc \notin {"off", "new"}

\* Both compute functions have returned.
GpuBuilt == gpc = "ready" /\ called = {"octree", "mipmap"}

\* Sides of the mip levels of a texture that have been written.
WrittenSides(t) == {MipSide(t.size, i) : i \in t.written}

\* The octree passes in the order of issue.
OctreePasses == SelectSeq(passes, LAMBDA p : p.pipeline = "octree")

\* Sum of channel ch over the 8 texels of the level prev under cell q of
\* the next level, whose side is d.
ChildSum(prev, d, q, ch) ==
    LET c == Coord(d, q)
        kid(s) == At(prev, SlotCell(c, s)[1], SlotCell(c, s)[2],
                     SlotCell(c, s)[3])[ch]
    IN  kid(1) + kid(2) + kid(3) + kid(4) + kid(5) + kid(6) + kid(7) + kid(8)

\* The mip levels of the colors texture written by a pass.
ReducedLevels == colors_texture.written \ {0}

\* --------------------------------------------------------------------- C18

\* C18 as stated: once both pyramids are built, the colors texture and the
\* octree texture have the same number of written mip levels and the same
\* set of mip sides.
C18_Original ==
    GpuBuilt =>
        /\ Cardinality(colors_texture.written)
              = Cardinality(octree_texture.written)
        /\ WrittenSides(colors_texture) = WrittenSides(octree_texture)

\* C18 amended: for dim = 2^k, k >= 1, once both pyramids are built both
\* textures have exactly k mip levels, all of them written; the sides of
\* the colors levels are dim, ..., 2 and those of the octree levels are
\* dim/2, ..., 1, so that level i of the colors texture has twice the side
\* of level i of the octree texture.
C18_SameCountShiftedSides ==
    GpuBuilt =>
        \E k \in {octree_depth + 1} :
          /\ colors_texture.mips = k
          /\ octree_texture.mips = k
          /\ colors_texture.written = 0..(k - 1)
          /\ octree_texture.written = 0..(k - 1)
          /\ WrittenSides(colors_texture) = {2^j : j \in 1..k}
          /\ WrittenSides(octree_texture) = {2^j : j \in 0..(k - 1)}
          /\ \A i \in 0..(k - 1) :
               MipSide(colors_texture.size, i)
                  = 2 * MipSide(octree_texture.size, i)

\* Both pyramids are built for dim = 8: the colors texture has a level of
\* side 8, the octree texture one of side 1.
C18_Witness ==
    /\ GpuBuilt
    /\ StateDim = 8
    /\ 8 \in WrittenSides(colors_texture)
    /\ 1 \in WrittenSides(octree_texture)

\* --------------------------------------------------------------------- C19

\* C19 as stated: every channel of every cell of a reduced colors level is
\* exactly the sum of the channel over its 8 children divided by 8.
C19_Original ==
    TexturesCreated =>
        \A i \in ReducedLevels :
          \A q \in 1..Len(colors_texture.levels[i].data) :
            \A ch \in 1..4 :
              8 * colors_texture.levels[i].data[q][ch]
                 = ChildSum(colors_texture.levels[i - 1],
                            colors_texture.levels[i].dim, q, ch)

\* A step that writes a level of the colors texture stores, in every
\* channel of every cell, a value less than one step of 1/255 away from the
\* mean over the 8 children in the level below, all 8 counted.
PassStoresMean ==
    (TexturesCreated /\ colors_texture' # colors_texture) =>
        \A i \in colors_texture'.written \ colors_texture.written :
          \A q \in 1..Len(colors_texture'.levels[i].data) :
            \A ch \in 1..4 :
              \E e \in {8 * colors_texture'.levels[i].data[q][ch]
                           - ChildSum(colors_texture.levels[i - 1],
                                      colors_texture'.levels[i].dim, q, ch)} :
                -8 < e /\ e < 8

\* C19 amended: every channel of every cell of a reduced colors level is
\* the mean over its 8 children, fully transparent ones included in the
\* divisor 8, stored as an 8-bit value: it differs from the mean by less
\* than one step of 1/255, and a written level is never written again.
C19_MeanWithinOneStep ==
    [][/\ PassStoresMean
       /\ TexturesCreated =>
            \A i \in colors_texture.written :
                /\ i \in colors_texture'.written
                /\ colors_texture'.levels[i] = colors_texture.levels[i]]_vars

\* A reduced level has a cell with a fully transparent child and a child
\* that is not, and a channel whose sum over the children is not a
\* multiple of 8.
C19_Witness ==
    /\ TexturesCreated
    /\ \E i \in ReducedLevels :
         \E q \in 1..Len(colors_texture.levels[i].data) :
           /\ \E s \in 1..8 :
                ChunkAt(colors_texture.levels[i - 1], q)[s] = <<0, 0, 0, 0>>
           /\ \E s \in 1..8 :
                ChunkAt(colors_texture.levels[i - 1], q)[s] # <<0, 0, 0, 0>>
           /\ \E ch \in 1..4 :
                ChildSum(colors_texture.levels[i - 1],
                         colors_texture.levels[i].dim, q, ch) % 8 # 0

\* --------------------------------------------------------------------- C20

\* The passes of compute_octree issued so far write the mip levels 0, 1, ..
\* in this order; the first reads the voxels texture and every other one
\* the level the pass before it wrote; the level a pass reads has been
\* written when the pass is issued and is not the level the pass writes.
OctreePassesInSequence ==
    \A i \in 1..Len(OctreePasses) :
      /\ OctreePasses[i].output = <<"octree", i - 1>>
      /\ OctreePasses[i].input =
            IF i = 1 THEN <<"voxels", 0>> ELSE OctreePasses[i - 1].output
      /\ OctreePasses[i].ready
      /\ OctreePasses[i].input # OctreePasses[i].output

\* A step of build_svo's level loop that adds a level adds it after the
\* levels built so far, leaves those as they are, and computes it from the
\* last of them alone: half its side, and a cell nonzero iff one of the 8
\* cells of its block in that level is nonzero.
LayerStepReadsPrevious ==
    (pc = "layers" /\ levels' # levels) =>
        /\ Len(levels') = Len(levels) + 1
        /\ SubSeq(levels', 1, Len(levels)) = levels
        /\ levels'[Len(levels')].dim = levels[Len(levels)].dim \div 2
        /\ \A q \in 1..Len(levels'[Len(levels')].data) :
             \E c \in {Coord(levels'[Len(levels')].dim, q)} :
               (levels'[Len(levels')].data[q] # 0)
                  <=> \E s \in 1..8 :
                        At(levels[Len(levels)], SlotCell(c, s)[1],
                           SlotCell(c, s)[2], SlotCell(c, s)[3]) # 0

\* C20: levels are built strictly in sequence, in compute_octree and in
\* build_svo's level loop: the pass for level n is issued before the pass
\* for level n + 1, each pass reads the level written by the pass before
\* it (the first pass the raw voxels), and no pass reads a level that is
\* not yet written or the level it writes.
C20_LevelsInSequence ==
    [] OctreePassesInSequence /\ [][LayerStepReadsPrevious]_vars

\* compute_octree has issued its three passes for dim = 8 and build_svo
\* has built its levels for the same volume.
C20_Witness ==
    /\ StateDim = 8
    /\ "octree" \in called
    /\ Len(OctreePasses) = 3
    /\ pc = "done"
    /\ Len(levels) = 3

\* ---------------------------------------------------------------------- C25

\* The slot (1-based) of a node that stands for the child at the local
\* offset (x, y, z) of its 2x2x2 chunk.
SlotOf(x, y, z) == 4 * x + 2 * y + z + 1

\* C25: slot k = 4x + 2y + z of a pushed node holds the child at the local
\* offset (x, y, z) of its chunk: the cell (2cx + x, 2cy + y, 2cz + z) of
\* the level the chunk was cut from, which for a node of level 0 is the
\* material of that voxel of the input.
C25_SlotOrder ==
    pc = "done" =>
        \A i \in 1..Len(origin) :
          \E a \in {levels[origin[i][1] + 1]} :
            \E c \in {Coord(ChunkDim(a), origin[i][2])} :
              \A x \in 0..1 : \A y \in 0..1 : \A z \in 0..1 :
                \E v \in {Emitted(i)[SlotOf(x, y, z)]} :
                  /\ v = At(a, 2 * c[1] + x, 2 * c[2] + y, 2 * c[3] + z)
                  /\ origin[i][1] = 0 =>
                       v = At(voxels, 2 * c[1] + x, 2 * c[2] + y, 2 * c[3] + z)

\* A finished build with a node of level 0 and a node of a level n >= 1
\* whose only occupied child is the one at the local offset (0, 0, 1).
C25_Witness ==
    /\ pc = "done"
    /\ \E i \in 1..Len(origin) : \E j \in PointerNodes :
         /\ origin[i][1] = 0
         /\ \A s \in 1..8 : (Emitted(i)[s] # 0) <=> (s = SlotOf(0, 0, 1))
         /\ \A s \in 1..8 : (Emitted(j)[s] # 0) <=> (s = SlotOf(0, 0, 1))

\* ---------------------------------------------------------------------- C28

\* Positions (1-based) in the returned array of the nodes whose slots are
\* read as pointers: the leading nodes and the nodes of the levels n >= 1.
NonLeafPositions ==
    (1..(Len(vec) - Len(origin)))
        \cup {Len(vec) - Len(origin) + i : i \in PointerNodes}

\* C28 as stated: in the returned array every nonzero slot of every
\* non-leaf node, the leading nodes included, is a position of the array
\* (less than its length, counting from 0) that is strictly greater than
\* the position of the node holding it, whatever the input volume.
C28_PointersValidAndForward ==
    pc = "done" =>
        \A p \in NonLeafPositions :
            \A s \in 1..8 :
                vec[p][s] # 0 =>
                    /\ vec[p][s] < Len(vec)
                    /\ vec[p][s] > p - 1

\* ---------------------------------------------------------------------- C29

\* The mipmap passes in the order of issue.
MipmapPasses == SelectSeq(passes, LAMBDA p : p.pipeline = "mipmap")

\* C29: for dim = 2^k, k >= 1, no pass of compute_octree or compute_mipmap
\* names a mip level its texture does not have (no validation error is
\* raised): pass i of compute_octree (i = 0, 1, ...) writes mip i of the
\* occupancy texture with i below its mip_level_count = log2(dim) = k and
\* with as many workgroups per axis as that mip has texels per axis,
\* dim / 2^(i+1); compute_octree issues exactly k passes; and every mip
\* written by compute_mipmap is below the color texture's mip_level_count.
C29_PassesStayInsideTextures ==
    /\ gpc # "panic"
    /\ TexturesCreated =>
        /\ octree_texture.mips = octree_depth + 1
        /\ 2^octree_texture.mips = StateDim
        /\ Len(OctreePasses) <= octree_texture.mips
        /\ "octree" \in called => Len(OctreePasses) = octree_texture.mips
        /\ \A i \in 1..Len(OctreePasses) :
             /\ OctreePasses[i].output = <<"octree", i - 1>>
             /\ i - 1 < octree_texture.mips
             /\ OctreePasses[i].groups = MipSide(octree_texture.size, i - 1)
             /\ OctreePasses[i].groups = StateDim \div 2^i
             /\ OctreePasses[i].groups >= 1
        /\ \A i \in 1..Len(MipmapPasses) :
             /\ MipmapPasses[i].output[1] = "colors"
             /\ MipmapPasses[i].output[2] < colors_texture.mips
             /\ MipmapPasses[i].output[2] \in colors_texture.written

\* Both functions have returned for dim = 8: three octree passes, the last
\* one writing the coarsest mip with a single workgroup, and two mipmap
\* passes, the last one writing the last mip of the color texture.
C29_Witness ==
    /\ GpuBuilt
    /\ StateDim = 8
    /\ Len(OctreePasses) = 3
    /\ OctreePasses[3].output[2] = octree_texture.mips - 1
    /\ OctreePasses[3].groups = 1
    /\ Len(MipmapPasses) = 2
    /\ MipmapPasses[2].output[2] = colors_texture.mips - 1

\* ---------------------------------------------------------------------- C26

\* The levels of build_svo for an array a: a itself and its m - 1 successive
\* reductions.
RECURSIVE PyramidOf(_, _)
PyramidOf(a, m) ==
    IF m <= 1 THEN <<a>> ELSE <<a>> \o PyramidOf(ReduceLevel(a), m - 1)

\* The levels lv after the pointer pass has rewritten the levels l, l - 1,
\* ..., 2 (the coarsest first), the counter being p before level l.
RECURSIVE PointedFrom(_, _, _)
PointedFrom(lv, l, p) ==
    IF l < 2 THEN lv
    ELSE PointedFrom([lv EXCEPT ![l].data = AssignData(@, p)], l - 1,
                     AssignPtr(lv[l].data, p))

\* The nodes pushed for the levels l, l - 1, ..., 1 of lv.
RECURSIVE NodesFrom(_, _)
NodesFrom(lv, l) ==
    IF l < 1 THEN << >>
    ELSE LevelNodes(lv[l], KeptChunks(lv[l])) \o NodesFrom(lv, l - 1)

\* build_svo(&a) for an array a of side 2^k, k >= 1.
BuildSvoOf(a) ==
    LET lv == PointedFrom(PyramidOf(a, Ilog2(a.dim)), Ilog2(a.dim), InitialPtr)
    IN  FixedNodes \o NodesFrom(lv, Len(lv))

\* C26 as stated: the hierarchy that Voxels::new stores (and svo_bytes hands
\* out) is the result of build_svo on the volume it loaded.
C26_SvoIsBuiltFromVolume ==
    lpc = "done" => svo = BuildSvoOf(volume)

\* ------------------------------------------------------------- draw (C24)

\* Number of calls of draw that are followed.
MaxDraws == 1

\* The render passes in the order of issue.
RenderPasses == SelectSeq(passes, LAMBDA p : p.pipeline = "render")

\* WgpuState::draw: a render pass with the octree bind group, which holds
\* the view of all mips of octree_texture and the view of mip 0 of
\* colors_texture made in WgpuState::new, and one instance of 6 vertices.
\* draw tests nothing: the pass is recorded whatever compute_octree and
\* compute_mipmap have issued so far; the pass records whether both had
\* returned.
Draw ==
    /\ gpc = "ready"
    /\ SvoIdle
    /\ Len(RenderPasses) < MaxDraws
    /\ passes' = Append(passes,
           Pass("render", <<"octree", 0>>, <<"view", 0>>, 1,
                called = {"octree", "mipmap"}))
    /\ UNCHANGED <<octree_depth, rounding, gpc, dim, depth, called,
                   octree_texture, colors_texture>>
    /\ UNCHANGED <<svoVars, loaderVars, restVars>>

\* The operations of a WgpuState in any order a caller may choose.
NextDraw ==
    \/ NewState
    \/ CallComputeOctree
    \/ OctreeFirstPass
    \/ OctreePass
    \/ OctreeReturn
    \/ CallComputeMipmap
    \/ MipmapPass
    \/ MipmapReturn
    \/ Draw

SpecDraw == InitGpu /\ [][NextDraw]_vars

\* C24 as stated: in every sequence of WgpuState operations, a draw that
\* binds the occupancy and color textures is issued only after all passes
\* of compute_octree and of compute_mipmap for the volume have been issued.
C24_DrawOnlyAfterAllPasses ==
    \A i \in 1..Len(RenderPasses) : RenderPasses[i].ready

\* ------------------------------------- one level in parallel (C21)

\* Number of rayon workers that run the closure at the same time.
NumThreads == 2

\* Largest side of the level that is reduced.
ParSide == 4

\* Position in a.data of the s-th cell of the q-th chunk, with the chunk's
\* origin taken at b instead of 2 * b.
ChunkCellUnstrided(a, q, s) ==
    LET b == Coord(ChunkDim(a), q)
        o == SlotCell(<<0, 0, 0>>, s)
    IN  Pos(a.dim, b[1] + o[1], b[2] + o[2], b[3] + o[3])

\* Position in a.data of the s-th cell of the q-th chunk of
\* a.exact_chunks((2, 2, 2)).
ChunkCell(a, q, s) ==
    LET b == Coord(ChunkDim(a), q)
        o == SlotCell(<<0, 0, 0>>, s)
    IN  Pos(a.dim, 2 * b[1] + o[1], 2 * b[2] + o[2], 2 * b[3] + o[3])

\* The positions that o.iter().any(|v| *v != 0) reads in the chunk q: any()
\* stops at the first cell that is not 0.
AnyReads(a, q) ==
    {ChunkCell(a, q, s) : s \in {t \in 1..8 :
        \A u \in 1..(t - 1) : a.data[ChunkCell(a, q, u)] = 0}}

\* The closure's result for the chunk q: any(...) as u32.
AnyValue(a, q) ==
    IF \E p \in AnyReads(a, q) : a.data[p] # 0 THEN 1 ELSE 0

\* The cells of the output array.
ParCells == 1..Cells(ChunkDim(par_in))

\* A level of side 2 or ParSide is about to be reduced; it is empty or full
\* but for at most the voxel at the origin.
InitPar ==
    /\ \E d \in {2, ParSide} :
         \E S \in SubsetsUpTo({1}, 1) :
           \E inv \in BOOLEAN :
             par_in = Volume(d, S, inv)
    /\ par_out = << >>
    /\ running = << >>
    /\ reads = << >>
    /\ ppc = "run"
    /\ SvoOff
    /\ LoaderOff
    /\ GpuOff
    /\ ReloadOff
    /\ PreOff

\* A free worker takes a chunk no worker has taken, whichever it is, and
\* runs the closure on it.
MapCell ==
    /\ ppc = "run"
    /\ Cardinality(DOMAIN running) < NumThreads
    /\ \E q \in ParCells \ DOMAIN reads :
         /\ running' = running @@ (q :> AnyValue(par_in, q))
         /\ reads' = reads @@ (q :> AnyReads(par_in, q))
    /\ UNCHANGED <<par_in, par_out, ppc>>
    /\ UNCHANGED <<svoVars, loaderVars, gpuVars, reloadVars, preVars>>

\* A worker stores its result in the chunk's cell of the collected array.
StoreCell ==
    /\ ppc = "run"
    /\ \E q \in DOMAIN running :
         /\ par_out' = par_out @@ (q :> running[q])
         /\ running' = [x \in DOMAIN running \ {q} |-> running[x]]
    /\ UNCHANGED <<par_in, reads, ppc>>
    /\ UNCHANGED <<svoVars, loaderVars, gpuVars, reloadVars, preVars>>

\* Every cell is stored: par_map_collect returns the array.
Collect ==
    /\ ppc = "run"
    /\ DOMAIN par_out = ParCells
    /\ ppc' = "done"
    /\ UNCHANGED <<par_in, par_out, running, reads>>
    /\ UNCHANGED <<svoVars, loaderVars, gpuVars, reloadVars, preVars>>

NextPar ==
    \/ MapCell
    \/ StoreCell
    \/ Collect

SpecPar == InitPar /\ [][NextPar]_vars

\* The array par_map_collect returns.
ParResult ==
    [dim |-> ChunkDim(par_in), data |-> [q \in ParCells |-> par_out[q]]]

\* The positions of the input inside the 2x2x2 block under the output cell q.
BlockOf(q) ==
    LET c == Coord(ChunkDim(par_in), q)
    IN  {Pos(par_in.dim, x, y, z) :
            x \in (2 * c[1])..(2 * c[1] + 1),
            y \in (2 * c[2])..(2 * c[2] + 1),
            z \in (2 * c[3])..(2 * c[3] + 1)}

\* Whatever the order in which the workers have taken and stored cells:
\* each cell mapped has read only positions of its own block, the blocks
\* read for two cells are disjoint, every result is the one its block
\* determines, and the collected array is the sequential reduction.
ParIndependent ==
    ppc # "off" =>
        /\ \A q \in DOMAIN reads :
             /\ reads[q] \subseteq BlockOf(q)
             /\ Cardinality(BlockOf(q)) = 8
             /\ \A r \in DOMAIN reads \ {q} : reads[q] \cap reads[r] = {}
        /\ \A q \in DOMAIN running :
             running[q] = IF \E p \in BlockOf(q) : par_in.data[p] # 0
                          THEN 1 ELSE 0
        /\ \A q \in DOMAIN par_out :
             par_out[q] = IF \E p \in BlockOf(q) : par_in.data[p] # 0
                          THEN 1 ELSE 0
        /\ ppc = "done" => ParResult = ReduceLevel(par_in)

\* A step writes nothing a worker reads (the input stays as it is) and
\* nothing another worker has written: it stores at most one cell, one
\* that was not stored before, and leaves every stored cell as it is.
ParStepWritesOwnCell ==
    ppc # "off" =>
        /\ par_in' = par_in
        /\ DOMAIN par_out \subseteq DOMAIN par_out'
        /\ \A q \in DOMAIN par_out : par_out'[q] = par_out[q]
        /\ Cardinality(DOMAIN par_out' \ DOMAIN par_out) <= 1
        /\ DOMAIN par_out' \ DOMAIN par_out \subseteq DOMAIN running

\* C21: within one level the result of the reduction does not depend on
\* the order or interleaving of the parallel workers: each output cell
\* reads only its own 8 input cells, the input cells of distinct output
\* cells are disjoint, and no worker writes a cell that another worker
\* reads or writes.
C21_OrderIndependent ==
    [] ParIndependent /\ [][ParStepWritesOwnCell]_vars

\* Two workers at once and cells stored out of iteration order: the last
\* cell of a level of side ParSide is stored, with the value 0 of its empty
\* block, while the first cell, whose block is occupied, is still held by
\* a worker next to another one.
C21_Witness ==
    /\ ppc = "run"
    /\ par_in.dim = ParSide
    /\ Cardinality(DOMAIN running) = NumThreads
    /\ 1 \in DOMAIN running
    /\ running[1] = 1
    /\ Cells(ChunkDim(par_in)) \in DOMAIN par_out
    /\ par_out[Cells(ChunkDim(par_in))] = 0
    /\ Cardinality(reads[1]) = 1

\* ------------------------------------------ reload_shaders (C22, C23)

\* Number of calls of reload_shaders that are followed.
MaxReloads == 2

\* What preproc::compile_shader returns (Ok or Err) and what
\* device.pop_error_scope() yields after create_shader_module (None or
\* Some(err)); both depend on the shader files at the time of the call.
Outcomes == {"ok", "err"}

\* A pipeline: the call that built it (0 for WgpuState::new) and the module
\* it was built from.
Pipeline(gen, module) == [kind |-> "pipeline", gen |-> gen, module |-> module]

\* What a create function yields when it yields no pipeline: "None", or
\* "panic" for panic!().
NoPipeline(kind) == [kind |-> kind, gen |-> 0, module |-> ""]

\* create_shader_pipeline: the module is the compiled shader, or
\* fallback_shader() when compile_shader fails; a validation error of the
\* module is answered with panic!(), shown here as "panic".
CreateShaderPipeline(gen, compile, validation) ==
    IF validation = "err" THEN NoPipeline("panic")
    ELSE Pipeline(gen, IF compile = "ok" THEN "file" ELSE "fallback")

\* create_octree_pipeline and create_mipmap_pipeline: None when
\* compile_shader fails or the module has a validation error.
CreateComputePipeline(gen, compile, validation) ==
    IF compile = "err" \/ validation = "err" THEN NoPipeline("None")
    ELSE Pipeline(gen, "file")

\* if let Some(p) = created { self.field = p; }
AssignIfSome(old, created) == IF created.kind = "None" THEN old ELSE created

\* A WgpuState has been created; its render pipeline was built from the
\* shader file or from the fallback shader.
InitReload ==
    /\ rpc = "idle"
    /\ reloads = 0
    /\ \E m \in {"file", "fallback"} :
         pipelines = [render |-> Pipeline(0, m),
                      octree |-> Pipeline(0, "file"),
                      mipmap |-> Pipeline(0, "file")]
    /\ before = pipelines
    /\ failed = {}
    /\ SvoOff
    /\ LoaderOff
    /\ GpuOff
    /\ ParOff
    /\ PreOff

\* reload_shaders is entered.
CallReload ==
    /\ rpc = "idle"
    /\ reloads < MaxReloads
    /\ reloads' = reloads + 1
    /\ before' = pipelines
    /\ failed' = {}
    /\ rpc' = "render"
    /\ UNCHANGED pipelines
    /\ UNCHANGED <<svoVars, loaderVars, gpuVars, parVars, preVars>>

\* self.render_pipeline = create_shader_pipeline(...);
ReloadRender ==
    /\ rpc = "render"
    /\ \E compile \in Outcomes : \E validation \in Outcomes :
         \E created \in {CreateShaderPipeline(reloads, compile, validation)} :
           /\ failed' = IF compile = "err" THEN failed \cup {"render"}
                        ELSE failed
           /\ IF created.kind = "panic"
              THEN /\ rpc' = "panic"
                   /\ UNCHANGED pipelines
              ELSE /\ rpc' = "octree"
                   /\ pipelines' = [pipelines EXCEPT !.render = created]
    /\ UNCHANGED <<reloads, before>>
    /\ UNCHANGED <<svoVars, loaderVars, gpuVars, parVars, preVars>>

\* if let Some(octree_pipeline) = create_octree_pipeline(...) { ... }
ReloadOctree ==
    /\ rpc = "octree"
    /\ \E compile \in Outcomes : \E validation \in Outcomes :
         /\ failed' = IF compile = "err" THEN failed \cup {"octree"}
                      ELSE failed
         /\ pipelines' = [pipelines EXCEPT !.octree =
               AssignIfSome(@, CreateComputePipeline(reloads, compile,
                                                     validation))]
    /\ rpc' = "mipmap"
    /\ UNCHANGED <<reloads, before>>
    /\ UNCHANGED <<svoVars, loaderVars, gpuVars, parVars, preVars>>

\* if let Some(mipmap_pipeline) = create_mipmap_pipeline(...) { ... }, and
\* reload_shaders returns.
ReloadMipmap ==
    /\ rpc = "mipmap"
    /\ \E compile \in Outcomes : \E validation \in Outcomes :
         /\ failed' = IF compile = "err" THEN failed \cup {"mipmap"}
                      ELSE failed
         /\ pipelines' = [pipelines EXCEPT !.mipmap =
               AssignIfSome(@, CreateComputePipeline(reloads, compile,
                                                     validation))]
    /\ rpc' = "idle"
    /\ UNCHANGED <<reloads, before>>
    /\ UNCHANGED <<svoVars, loaderVars, gpuVars, parVars, preVars>>

NextReload ==
    \/ CallReload
    \/ ReloadRender
    \/ ReloadOctree
    \/ ReloadMipmap

SpecReload == InitReload /\ [][NextReload]_vars

\* reload_shaders has returned.
Reloaded == rpc = "idle" /\ reloads >= 1

\* C22 as stated: when reload_shaders has returned, each of the render,
\* octree and mipmap pipelines whose shader failed to compile in that call
\* is the pipeline it was when the call was entered.
C22_FailedCompileKeepsPipeline ==
    Reloaded => \A s \in failed : pipelines[s] = before[s]

\* C23 as stated: reload_shaders never panics, whatever combination of
\* compile errors and device validation errors the three shaders produce.
C23_ReloadNeverPanics ==
    rpc # "panic"

\* ---------------------------------------------- the shader files (C27, C30)

\* Largest number of include directives (or imports) in one file.
MaxIncludes == 2

\* The paths that name a file of the shader directory, and a path that
\* names none: fs::read_to_string fails for it.
ShaderPaths == {"main", "a", "b"}

Missing == "missing"

\* The sequences of at most n elements of S.
SeqsUpTo(S, len) == UNION {[1..k -> S] : k \in 0..len}

\* The shader directories: for each file the paths it refers to, in the
\* order of the directives.  A file may refer to itself, to a file that
\* refers back to it, twice to the same file, and to the missing path.
Directories ==
    {[p \in ShaderPaths |-> IF p = "main" THEN m ELSE IF p = "a" THEN a ELSE b] :
        m \in SeqsUpTo(ShaderPaths \cup {Missing}, MaxIncludes),
        a \in SeqsUpTo(ShaderPaths \cup {Missing}, MaxIncludes),
        b \in SeqsUpTo({"a", Missing}, 1)}

\* -------------------------------------------------- build_shader (C27)

\* A piece of shader text: an include directive (what the regex matches),
\* the text of a file other than its directives, or a comment line written
\* by the preprocessor.  Offsets into a text count pieces.
Piece(t, path) == [t |-> t, path |-> path]

\* fs::read_to_string(path): the directives of the file, then its own text.
ReadToString(path) ==
    [i \in 1..Len(files[path]) |-> Piece("include", files[path][i])]
        \o << Piece("text", path) >>

\* re.captures_iter(&source): the offsets of the directives in source.
Captures(source) ==
    SelectSeq([i \in 1..Len(source) |-> i],
              LAMBDA i : source[i].t = "include")

\* s.replace_range(lo..hi, with) with the end hi exclusive.
ReplaceRange(s, lo, hi, with) ==
    SubSeq(s, 1, lo - 1) \o with \o SubSeq(s, hi, Len(s))

\* format!("// preproc: begin ...\n{0}\n// preproc: end ...\n", ...)
Wrapped(path, include_source) ==
    << Piece("begin", path) >> \o include_source \o << Piece("end", path) >>

\* The header and the constants that build_shader puts before the source.
Header(main) == << Piece("header", main), Piece("constants", main) >>

\* A call of rec_preprocess: before the test of included_files ("enter")
\* or in its loop over the captures, ci - 1 of which are done.
Frame(path) ==
    [path |-> path, phase |-> "enter", source |-> << >>,
     expanded |-> << >>, ci |-> 1]

\* The offset at which the caller f replaces what its callee returns: the
\* range of the capture in source, applied to expanded_source.
CaptureRangeStart(f) == Captures(f.source)[f.ci]

\* The stack and the result after the innermost call returns Ok(value): the
\* caller replaces the capture and goes on with the next one, or
\* build_shader returns the text.
BuildReturned(stack, value) ==
    IF Len(stack) = 1
    THEN [stack  |-> << >>,
          result |-> [ok |-> TRUE, error |-> "", path |-> "",
                      source |-> Header(stack[1].path) \o value]]
    ELSE LET f == stack[Len(stack) - 1]
             at == CaptureRangeStart(f)
         IN  [stack  |-> SubSeq(stack, 1, Len(stack) - 2) \o
                          << [f EXCEPT
                                !.expanded = ReplaceRange(@, at, at + 1,
                                    Wrapped(stack[Len(stack)].path, value)),
                                !.ci = @ + 1] >>,
              result |-> << >>]

\* build_shader(context) is about to be called on a directory.
InitBuild ==
    /\ files \in Directories
    /\ bpc = "start"
    /\ included_files = << >>
    /\ bstack = << >>
    /\ bresult = << >>
    /\ skips = << >>
    /\ ipc = "off"
    /\ composer = << >>
    /\ istack = << >>
    /\ iresult = << >>
    /\ SvoOff
    /\ LoaderOff
    /\ GpuOff
    /\ ParOff
    /\ ReloadOff

\* let source = rec_preprocess(&context.main, &mut vec![])
BuildCall ==
    /\ bpc = "start"
    /\ bstack' = << Frame("main") >>
    /\ bpc' = "run"
    /\ UNCHANGED <<files, included_files, bresult, skips>>
    /\ UNCHANGED <<ipc, composer, istack, iresult>>
    /\ UNCHANGED <<svoVars, loaderVars, gpuVars, parVars, reloadVars>>

\* The head of rec_preprocess: a path that is in included_files is answered
\* with the skipped comment; any other path is pushed and read, and a read
\* failure is returned through every caller by the ? operator.
BuildEnter ==
    /\ bpc = "run"
    /\ bstack # << >>
    /\ \E f \in {bstack[Len(bstack)]} :
         /\ f.phase = "enter"
         /\ IF \E i \in 1..Len(included_files) : included_files[i] = f.path
            THEN \E r \in {BuildReturned(bstack, << Piece("skipped", f.path) >>)} :
                   /\ bstack' = r.stack
                   /\ bresult' = r.result
                   /\ bpc' = IF r.stack = << >> THEN "done" ELSE bpc
                   /\ skips' = Append(skips, f.path)
                   /\ UNCHANGED included_files
            ELSE /\ included_files' = Append(included_files, f.path)
                 /\ skips' = skips
                 /\ IF f.path \in DOMAIN files
                    THEN /\ bstack' = [bstack EXCEPT ![Len(bstack)] =
                               [f EXCEPT !.phase = "loop",
                                         !.source = ReadToString(f.path),
                                         !.expanded = ReadToString(f.path)]]
                         /\ UNCHANGED <<bresult, bpc>>
                    ELSE /\ bstack' = << >>
                         /\ bresult' = [ok |-> FALSE, error |-> "IOError",
                                        path |-> f.path, source |-> << >>]
                         /\ bpc' = "done"
    /\ UNCHANGED files
    /\ UNCHANGED <<ipc, composer, istack, iresult>>
    /\ UNCHANGED <<svoVars, loaderVars, gpuVars, parVars, reloadVars>>

\* One iteration of for captures in re.captures_iter(&source), up to the
\* call rec_preprocess(&path, included_files).
BuildInclude ==
    /\ bpc = "run"
    /\ bstack # << >>
    /\ \E f \in {bstack[Len(bstack)]} :
         /\ f.phase = "loop"
         /\ f.ci <= Len(Captures(f.source))
         /\ bstack' = Append(bstack,
                             Frame(f.source[Captures(f.source)[f.ci]].path))
    /\ UNCHANGED <<files, bpc, included_files, bresult, skips>>
    /\ UNCHANGED <<ipc, composer, istack, iresult>>
    /\ UNCHANGED <<svoVars, loaderVars, gpuVars, parVars, reloadVars>>

\* The loop is over: Ok(expanded_source).
BuildReturn ==
    /\ bpc = "run"
    /\ bstack # << >>
    /\ \E f \in {bstack[Len(bstack)]} :
         /\ f.phase = "loop"
         /\ f.ci > Len(Captures(f.source))
         /\ \E r \in {BuildReturned(bstack, f.expanded)} :
              /\ bstack' = r.stack
              /\ bresult' = r.result
              /\ bpc' = IF r.stack = << >> THEN "done" ELSE bpc
    /\ UNCHANGED <<files, included_files, skips>>
    /\ UNCHANGED <<ipc, composer, istack, iresult>>
    /\ UNCHANGED <<svoVars, loaderVars, gpuVars, parVars, reloadVars>>

NextBuild ==
    \/ BuildCall
    \/ BuildEnter
    \/ BuildInclude
    \/ BuildReturn

SpecBuild == InitBuild /\ [][NextBuild]_vars

\* Number of pieces of kind t and path p in the text s.
CountPieces(s, t, p) ==
    Cardinality({i \in 1..Len(s) : s[i] = Piece(t, p)})

\* Number of occurrences of p in the sequence s.
CountIn(s, p) == Cardinality({i \in 1..Len(s) : s[i] = p})

\* C27 as stated: build_shader ends for every include graph, cyclic ones
\* included, and when it has ended: if a file that was reached could not be
\* read the result is the IOError naming that path; otherwise the text of
\* each file reached is in the result once and of no file twice, no
\* include directive is left in it, and each later inclusion of a path
\* has been replaced by a skipped comment for that path.
C27_EachFileOnceOthersSkipped ==
    /\ bpc = "run" => bstack # << >>
    /\ bpc = "done" =>
         IF CountIn(included_files, Missing) > 0
         THEN /\ ~bresult.ok
              /\ bresult.error = "IOError"
              /\ bresult.path = Missing
         ELSE /\ bresult.ok
              /\ \A p \in ShaderPaths \cup {Missing} :
                   /\ CountPieces(bresult.source, "text", p)
                          = CountIn(included_files, p)
                   /\ CountIn(included_files, p) <= 1
                   /\ CountPieces(bresult.source, "include", p) = 0
                   /\ CountPieces(bresult.source, "skipped", p)
                          = CountIn(skips, p)

\* ---------------------------------------------- preprocess_shader (C30)

\* Number of nested calls of rec_preproc the thread's stack has room for.
StackLimit == 5

\* A call of rec_preproc (or, at the bottom of the stack, the body of
\* preprocess_shader itself, which reads the main file): before the test of
\* composer.contains_module ("enter") or in its loop over the imports,
\* ii - 1 of which are done.
ImportFrame(path, phase) == [path |-> path, phase |-> phase, ii |-> 1]

\* Err(Error::IOError(path)) and Err(Error::ComposerError(path, ..)).
ImportError(error, path) == [ok |-> FALSE, error |-> error, path |-> path]

\* composer.contains_module(&mod_name)
ContainsModule(path) == \E i \in 1..Len(composer) : composer[i] = path

\* The stack after the innermost call has returned Ok(()): its caller goes
\* on with the next import.
ImportReturned(stack) ==
    SubSeq([stack EXCEPT ![Len(stack) - 1].ii = @ + 1], 1, Len(stack) - 1)

\* preprocess_shader(context) is about to be called on a directory.
InitImports ==
    /\ files \in Directories
    /\ ipc = "start"
    /\ composer = << >>
    /\ istack = << >>
    /\ iresult = << >>
    /\ bpc = "off"
    /\ included_files = << >>
    /\ bstack = << >>
    /\ bresult = << >>
    /\ skips = << >>
    /\ SvoOff
    /\ LoaderOff
    /\ GpuOff
    /\ ParOff
    /\ ReloadOff

\* let source = fs::read_to_string(&context.main)...?
ImportCall ==
    /\ ipc = "start"
    /\ IF "main" \in DOMAIN files
       THEN /\ istack' = << ImportFrame("main", "loop") >>
            /\ ipc' = "run"
            /\ UNCHANGED iresult
       ELSE /\ iresult' = ImportError("IOError", "main")
            /\ ipc' = "done"
            /\ UNCHANGED istack
    /\ UNCHANGED <<files, composer>>
    /\ UNCHANGED <<bpc, included_files, bstack, bresult, skips>>
    /\ UNCHANGED <<svoVars, loaderVars, gpuVars, parVars, reloadVars>>

\* The head of rec_preproc: a module the composer contains is answered with
\* Ok(()); any other path is read, and a read failure is returned through
\* every caller.
ImportEnter ==
    /\ ipc = "run"
    /\ \E f \in {istack[Len(istack)]} :
         /\ f.phase = "enter"
         /\ IF ContainsModule(f.path)
            THEN /\ istack' = ImportReturned(istack)
                 /\ UNCHANGED <<iresult, ipc>>
            ELSE IF f.path \in DOMAIN files
            THEN /\ istack' = [istack EXCEPT ![Len(istack)].phase = "loop"]
                 /\ UNCHANGED <<iresult, ipc>>
            ELSE /\ istack' = << >>
                 /\ iresult' = ImportError("IOError", f.path)
                 /\ ipc' = "done"
    /\ UNCHANGED <<files, composer>>
    /\ UNCHANGED <<bpc, included_files, bstack, bresult, skips>>
    /\ UNCHANGED <<svoVars, loaderVars, gpuVars, parVars, reloadVars>>

\* One iteration of the loop over the imports, up to the call of
\* rec_preproc for the imported path.  A call for which the stack has no
\* room ends the process.
ImportNext ==
    /\ ipc = "run"
    /\ \E f \in {istack[Len(istack)]} :
         /\ f.phase = "loop"
         /\ f.ii <= Len(files[f.path])
         /\ IF Len(istack) < StackLimit
            THEN /\ istack' = Append(istack,
                                  ImportFrame(files[f.path][f.ii], "enter"))
                 /\ UNCHANGED ipc
            ELSE /\ ipc' = "overflow"
                 /\ UNCHANGED istack
    /\ UNCHANGED <<files, composer, iresult>>
    /\ UNCHANGED <<bpc, included_files, bstack, bresult, skips>>
    /\ UNCHANGED <<svoVars, loaderVars, gpuVars, parVars, reloadVars>>

\* The loop of a call of rec_preproc is over:
\* composer.add_composable_module(...), which may fail.
ImportAdd ==
    /\ ipc = "run"
    /\ Len(istack) > 1
    /\ \E f \in {istack[Len(istack)]} :
         /\ f.phase = "loop"
         /\ f.ii > Len(files[f.path])
         /\ \E added \in Outcomes :
              IF added = "ok"
              THEN /\ composer' = Append(composer, f.path)
                   /\ istack' = ImportReturned(istack)
                   /\ UNCHANGED <<iresult, ipc>>
              ELSE /\ iresult' = ImportError("ComposerError", f.path)
                   /\ istack' = << >>
                   /\ ipc' = "done"
                   /\ UNCHANGED composer
    /\ UNCHANGED files
    /\ UNCHANGED <<bpc, included_files, bstack, bresult, skips>>
    /\ UNCHANGED <<svoVars, loaderVars, gpuVars, parVars, reloadVars>>

\* Every import of the main file is done: composer.make_naga_module(...),
\* which may fail, and preprocess_shader returns.
ImportFinish ==
    /\ ipc = "run"
    /\ Len(istack) = 1
    /\ istack[1].phase = "loop"
    /\ istack[1].ii > Len(files[istack[1].path])
    /\ \E made \in Outcomes :
         iresult' = IF made = "ok"
                    THEN [ok |-> TRUE, error |-> "", path |-> "main"]
                    ELSE ImportError("ComposerError", "main")
    /\ istack' = << >>
    /\ ipc' = "done"
    /\ UNCHANGED <<files, composer>>
    /\ UNCHANGED <<bpc, included_files, bstack, bresult, skips>>
    /\ UNCHANGED <<svoVars, loaderVars, gpuVars, parVars, reloadVars>>

NextImports ==
    \/ ImportCall
    \/ ImportEnter
    \/ ImportNext
    \/ ImportAdd
    \/ ImportFinish

SpecImports == InitImports /\ [][NextImports]_vars

\* C30 as stated: preprocess_shader ends for every import graph, cyclic
\* ones included (the recursion never runs out of stack); no module is
\* added twice; a module is added only after every module it imports; and
\* once something has failed nothing more is processed: the result is that
\* failure.
C30_ImportsTerminateInOrder ==
    /\ ipc # "overflow"
    /\ \A i \in 1..Len(composer) :
         /\ \A j \in 1..Len(composer) : composer[i] = composer[j] => i = j
         /\ \A k \in 1..Len(files[composer[i]]) :
              \E j \in 1..(i - 1) : composer[j] = files[composer[i]][k]
    /\ ipc = "done" /\ iresult.ok =>
         /\ \A k \in 1..Len(files["main"]) :
              ContainsModule(files["main"][k])
         /\ ~ContainsModule(Missing)
    /\ ipc = "done" /\ ~iresult.ok /\ iresult.error = "IOError" =>
         /\ iresult.path = Missing
         /\ ~ContainsModule(Missing)

====
